---- MODULE Spec2Model ----
(***************************************************************************)
(* Connector governance layer of the SentinelBERT ingestion service:       *)
(* the Reddit connector (OAuth2 token cache + proactive dual-window        *)
(* limiter), the Twitter connector (reactive limiter fed by response       *)
(* headers) and the placeholder connectors (Instagram, Telegram, YouTube). *)
(*                                                                         *)
(* One behaviour exercises one connector instance (variable platform),     *)
(* called by a small set of concurrent tasks.  Every await of the source   *)
(* is a position of the task (pc); the code between two awaits is one      *)
(* action.  Time is a discrete clock (now); a sleeping task resumes        *)
(* exactly when its deadline is reached.  Durations and caps are scaled    *)
(* down, keeping their order relations.                                    *)
(***************************************************************************)
EXTENDS Integers, Sequences, FiniteSets, TLC

(* ------------------------------ bounds --------------------------------- *)
NumCallers == 2
MaxTime == 9
\* clock horizons of the runs that exercise whole connector calls
Horizon == 2
TwitterHorizon == 2
\* clock horizon of the runs in which no wait for a window reset ends
ShortHorizon == 1
\* the last moment a call arrives at in the runs that follow every call to
\* its return
LastArrival == 5
\* Reddit limiter, scaled: 600 ms spacing, 1 minute, 1 hour, caps 100 / 1000.
\* The clock ticks twice per spacing interval, and MinuteCap calls one
\* spacing apart fill a minute exactly, as 100 calls 600 ms apart do.
RedditSpacing == 2
MinuteLen == 4
HourLen == 8
MinuteCap == 2
HourCap == 3
\* Twitter limiter, scaled: 1 s spacing, 15 minutes window, 300 requests
TwitterSpacing == 1
TwitterWindow == 2
TwitterLimit == 2
\* Token manager, scaled: 300 s safety margin, largest expires_in served
TokenMargin == 1
MaxExpiresIn == 3
MaxTokens == 2
\* tokens issued in a run that exercises whole connector calls
CallTokens == 1

Callers == 1..NumCallers
Platforms == {"reddit", "twitter", "instagram", "telegram", "youtube"}
Placeholders == {"instagram", "telegram", "youtube"}
Statuses == {200, 204, 401, 404, 500}
ExpiresInValues == {0, MaxExpiresIn}

(* Option<T>: None is the empty sequence, Some(x) the one-element sequence *)
NoneV == <<>>
Some(x) == <<x>>
IsSome(o) == o # <<>>
Unwrap(o) == o[1]

VARIABLES
    platform,          \* which connector this instance is
    privacy_config,    \* the PrivacyConfig the connector was constructed with
    credential,        \* the token / key the connector was constructed with
    tw,                \* twitter RateLimitState
    now,               \* Utc::now()
    rl,                \* reddit RateLimitState
    access_token,      \* RedditConnector.access_token contents
    token_expires_at,  \* RedditConnector.token_expires_at contents
    rate_lock,         \* RwLock around rate_limit_state: readers / writer
    token_lock,        \* RwLock around access_token
    expires_lock,      \* RwLock around token_expires_at
    pc,                \* position of each task
    op,                \* public operation the task is running
    out,               \* what the step just taken returned to its caller
    loc,               \* locals of the task's running call
    grants,            \* history: times at which wait_for_rate_limit counted a call
    issued,            \* number of tokens the token endpoint has issued
    stored,            \* history: when the cached token was issued, and its expires_in
    sends              \* history, in the runs that keep it: times at which a
                       \* request to the API was sent

vars == <<platform, privacy_config, credential, tw, now, rl, access_token, token_expires_at, rate_lock,
          token_lock, expires_lock, pc, op, out, loc, grants, issued, stored, sends>>

(* --------------------------- locks (tokio RwLock) ----------------------- *)
\* w, r: the tasks holding the write guard and read guards; q: the tasks
\* registered as waiters, in order of arrival
FreeLock == [w |-> {}, r |-> {}, q |-> <<>>]
CanRead(l) == l.w = {}
CanWrite(l) == l.w = {} /\ l.r = {}
Without(q, p) == SelectSeq(q, LAMBDA x : x # p)
AddReader(l, p) == [l EXCEPT !.r = @ \cup {p}, !.q = Without(@, p)]
AddWriter(l, p) == [l EXCEPT !.w = @ \cup {p}, !.q = Without(@, p)]
Release(l, p) == [w |-> l.w \ {p}, r |-> l.r \ {p}, q |-> Without(l.q, p)]
\* the waiters are served in order of arrival: a task takes the lock only
\* when no task waits, or when it is the first of the waiters
Turn(l, p) == IF l.q = <<>> THEN TRUE ELSE Head(l.q) = p
Waiting(l, p) == \E i \in 1..Len(l.q) : l.q[i] = p
Holders(l) == l.w \cup l.r

(* ------------------------------ locals --------------------------------- *)
NoLocals == [token |-> NoneV, expires_at |-> NoneV, pending |-> NoneV, wake |-> NoneV,
             charged |-> FALSE, waited |-> FALSE, fetches |-> 0,
             seen |-> NoneV, exhausted |-> FALSE, sent |-> 0, cause |-> "none"]

\* nothing was returned by the step just taken
NoOut == [caller |-> 0, op |-> "none", res |-> "none", status |-> 0, code |-> 0,
          token |-> NoneV, fetches |-> 0, waited |-> FALSE, charged |-> FALSE,
          arg |-> "none", at |-> "none", items |-> <<>>, posts |-> <<>>,
          info |-> NoneV, sent |-> 0, raw |-> NoneV, post |-> NoneV,
          cause |-> "none", headers |-> NoneV]

RedditDefault == [requests_this_minute |-> 0, requests_this_hour |-> 0,
                  minute_window_start |-> 0, hour_window_start |-> 0,
                  last_request |-> NoneV]

\* twitter.rs RateLimitState::default(), at construction time t
TwitterDefault(t) == [remaining |-> TwitterLimit, limit |-> TwitterLimit,
                      reset_time |-> t + TwitterWindow, last_request |-> NoneV]

\* mod.rs PrivacyConfig::default()
DefaultPrivacy == [salt |-> "default_salt_change_in_production"]

\* the credentials a connector is constructed with: Reddit's client id and
\* client secret, the others' single token or key
RedditCredentials == [client_id : {"", "id"}, client_secret : {"", "secret"}]
AnyCredentials ==
    [pl \in Platforms |-> IF pl = "reddit" THEN RedditCredentials ELSE {"", "secret"}]

\* the credentials of connectors that are called over the network
WorkingCredentials ==
    [pl \in Platforms |->
        IF pl = "reddit" THEN {[client_id |-> "id", client_secret |-> "secret"]}
        ELSE IF pl \in Placeholders THEN {"", "secret"} ELSE {"secret"}]

\* the state of a connector just constructed with privacy configuration cfg
\* and one of the credentials creds allows for its platform; history is the
\* record of requests sent, Some(<<>>) in a run that keeps one
ConstructedWith(cfg, creds, history) ==
    /\ platform \in Platforms
    /\ privacy_config = cfg
    /\ credential \in creds[platform]
    /\ now = 0
    /\ tw = TwitterDefault(0)
    /\ rl = RedditDefault
    /\ access_token = NoneV
    /\ token_expires_at = NoneV
    /\ rate_lock = FreeLock
    /\ token_lock = FreeLock
    /\ expires_lock = FreeLock
    /\ pc = [p \in Callers |-> "idle"]
    /\ op = [p \in Callers |-> "none"]
    /\ out = NoOut
    /\ loc = [p \in Callers |-> NoLocals]
    /\ grants = <<>>
    /\ issued = 0
    /\ stored = NoneV
    /\ sends = history

Constructed(cfg) == ConstructedWith(cfg, WorkingCredentials, NoneV)

Init == Constructed(DefaultPrivacy)

IsSuccess(s) == s >= 200 /\ s <= 299

\* a result without an error code, and ConnectorError::ApiError { code, .. }
Ret(r) == [res |-> r, code |-> 0]
ApiError(c) == [res |-> "ApiError", code |-> c]

\* the call of task p returns r from the position it is at; s is the HTTP
\* status it saw (0: none)
\* h: the rate-limit headers of the response the call handled, if it
\* handled one
FinishWith(p, r, s, h) ==
    /\ pc' = [pc EXCEPT ![p] = "idle"]
    /\ op' = [op EXCEPT ![p] = "none"]
    /\ loc' = [loc EXCEPT ![p] = NoLocals]
    /\ out' = [NoOut EXCEPT !.caller = p, !.op = op[p], !.res = r.res,
                            !.status = s, !.code = r.code, !.at = pc[p],
                            !.fetches = loc[p].fetches, !.waited = loc[p].waited,
                            !.charged = loc[p].charged, !.sent = loc[p].sent,
                            !.headers = h]

Finish(p, r, s) == FinishWith(p, r, s, NoneV)

\* the step moves task p to position l and returns nothing yet
Goto(p, l) ==
    /\ pc' = [pc EXCEPT ![p] = l]
    /\ out' = NoOut

(* --------------------------- reddit: operations ------------------------- *)
\* get_token and acquire are the two components called on their own
\* (get_access_token, wait_for_rate_limit); the others are the trait methods
TokenOps == {"get_token"}
AcquireOps == {"acquire"}
RedditApiOps == {"search_posts", "get_post_by_id"}
StatusOps == {"get_rate_limit_status"}
ValidateOps == {"validate_credentials"}

RedditFirstStep(o) ==
    IF o \in StatusOps THEN "st_wait"
    ELSE IF o \in AcquireOps THEN "rl_wait"
    ELSE "tok_rd1"

RedditCall(p, o) ==
    /\ platform = "reddit"
    /\ pc[p] = "idle"
    /\ Goto(p, RedditFirstStep(o))
    /\ op' = [op EXCEPT ![p] = o]
    /\ loc' = [loc EXCEPT ![p] = NoLocals]
    /\ UNCHANGED <<platform, privacy_config, credential, tw, now, rl, access_token, token_expires_at, rate_lock,
                   token_lock, expires_lock, grants, issued, stored, sends>>

(* --------------------- reddit: get_access_token ------------------------- *)
\* a validation that passes the failed authentication on as an error
RedditValidateOutcome_Propagates(r) ==
    IF r.res = "OkToken" THEN Ret("OkTrue") ELSE r
\* reddit.rs lines 897-907: validate_credentials maps the result of
\* get_access_token
RedditValidateOutcome(r) ==
    IF r.res = "OkToken" THEN Ret("OkTrue")
    ELSE IF r.res = "AuthenticationFailed" THEN Ret("OkFalse")
    ELSE r

\* what the caller of get_access_token makes of its error r: the trait
\* methods pass it on with ?, validate_credentials maps it
TokenError(o, r) == IF o \in ValidateOps THEN RedditValidateOutcome(r) ELSE r

\* get_access_token returned Ok(token) to its caller (lines 280, 331):
\* the trait methods go on to wait_for_rate_limit (lines 654-657, 715-718)
TokenReturned(p, l) ==
    IF op[p] \in TokenOps
      THEN /\ pc' = [pc EXCEPT ![p] = "idle"]
           /\ op' = [op EXCEPT ![p] = "none"]
           /\ loc' = [loc EXCEPT ![p] = NoLocals]
           /\ out' = [NoOut EXCEPT !.caller = p, !.op = op[p], !.res = "OkToken",
                                   !.token = l.token, !.fetches = l.fetches]
      ELSE IF op[p] \in ValidateOps
      THEN Finish(p, RedditValidateOutcome(Ret("OkToken")), 0)
      ELSE /\ Goto(p, "rl_wait")
           /\ op' = op
           /\ loc' = [loc EXCEPT ![p] = l]

\* line 275: access_token.read().await completes
TokRead1(p) ==
    /\ pc[p] = "tok_rd1"
    /\ CanRead(token_lock)
    /\ token_lock' = AddReader(token_lock, p)
    /\ Goto(p, "tok_rd2")
    /\ UNCHANGED <<platform, privacy_config, credential, tw, now, rl, access_token, token_expires_at, rate_lock,
                   expires_lock, op, loc, grants, issued, stored, sends>>

\* lines 278-279: the cached token is usable
TokenValid(tok, exp, t) == IsSome(tok) /\ IsSome(exp) /\ t < Unwrap(exp)

\* a check that returns with the read guard of the token still in hand
TokRead2_GuardKept(p) ==
    /\ pc[p] = "tok_rd2"
    /\ CanRead(expires_lock)
    /\ token_lock' = token_lock
    /\ IF TokenValid(access_token, token_expires_at, now)
         THEN TokenReturned(p, [loc[p] EXCEPT !.token = access_token,
                                              !.expires_at = token_expires_at])
         ELSE /\ Goto(p, "tok_net")
              /\ loc' = [loc EXCEPT ![p].fetches = @ + 1]
              /\ op' = op
    /\ UNCHANGED <<platform, privacy_config, credential, tw, now, rl, access_token, token_expires_at, rate_lock,
                   expires_lock, grants, issued, stored, sends>>

\* lines 276-283: token_expires_at.read().await completes, the check runs and
\* both read guards go out of scope
TokRead2(p) ==
    /\ pc[p] = "tok_rd2"
    /\ CanRead(expires_lock)
    /\ token_lock' = Release(token_lock, p)
    /\ IF TokenValid(access_token, token_expires_at, now)
         THEN TokenReturned(p, [loc[p] EXCEPT !.token = access_token,
                                              !.expires_at = token_expires_at])
         ELSE /\ Goto(p, "tok_net")
              /\ loc' = [loc EXCEPT ![p].fetches = @ + 1]
              /\ op' = op
    /\ UNCHANGED <<platform, privacy_config, credential, tw, now, rl, access_token, token_expires_at, rate_lock,
                   expires_lock, grants, issued, stored, sends>>

\* an expiry computed without the safety margin
ExpiresAt_NoMargin(t, expires_in) == t + expires_in
\* line 320: expiry of a freshly issued token
ExpiresAt(t, expires_in) == t + (expires_in - TokenMargin)

\* lines 296-303: the token request fails in transport
TokNetFail(p) ==
    /\ pc[p] = "tok_net"
    /\ Finish(p, TokenError(op[p], Ret("NetworkError")), 0)
    /\ UNCHANGED <<platform, privacy_config, credential, tw, now, rl, access_token, token_expires_at, rate_lock,
                   token_lock, expires_lock, grants, issued, stored, sends>>

\* a token request whose failure is reported like that of an API request
TokenFailure_AsApiError(s, parses) ==
    IF ~IsSuccess(s) THEN ApiError(s)
    ELSE IF ~parses THEN Ret("ParseError")
    ELSE Ret("none")
\* lines 305-317: the error a token response is turned into ("none": stored)
TokenFailure(s, parses) ==
    IF ~IsSuccess(s) THEN Ret("AuthenticationFailed")
    ELSE IF ~parses THEN Ret("ParseError")
    ELSE Ret("none")

\* a refresh that forgets the cached token when it fails
TokResponse_ClearsOnFailure(p, s, parses, expires_in, cap) ==
    /\ pc[p] = "tok_net"
    /\ IF TokenFailure(s, parses).res = "none"
         THEN /\ issued < cap
              /\ issued' = issued + 1
              /\ Goto(p, "tok_wr1")
              /\ loc' = [loc EXCEPT ![p].pending =
                            Some([token |-> issued + 1,
                                  expires_at |-> ExpiresAt(now, expires_in),
                                  issued_at |-> now,
                                  expires_in |-> expires_in])]
              /\ op' = op
              /\ UNCHANGED <<access_token, token_expires_at>>
         ELSE /\ issued' = issued
              /\ access_token' = NoneV
              /\ token_expires_at' = NoneV
              /\ Finish(p, TokenError(op[p], TokenFailure(s, parses)), s)
    /\ UNCHANGED <<platform, privacy_config, credential, tw, now, rl, rate_lock,
                   token_lock, expires_lock, grants, stored, sends>>

\* lines 305-320: the token endpoint answers
TokResponse(p, s, parses, expires_in, cap) ==
    /\ pc[p] = "tok_net"
    /\ IF TokenFailure(s, parses).res = "none"
         THEN /\ issued < cap
              /\ issued' = issued + 1
              /\ Goto(p, "tok_wr1")
              /\ loc' = [loc EXCEPT ![p].pending =
                            Some([token |-> issued + 1,
                                  expires_at |-> ExpiresAt(now, expires_in),
                                  issued_at |-> now,
                                  expires_in |-> expires_in])]
              /\ op' = op
         ELSE /\ issued' = issued
              /\ Finish(p, TokenError(op[p], TokenFailure(s, parses)), s)
    /\ UNCHANGED <<platform, privacy_config, credential, tw, now, rl, access_token, token_expires_at, rate_lock,
                   token_lock, expires_lock, grants, stored, sends>>

\* line 324: access_token.write().await completes
TokWrite1(p) ==
    /\ pc[p] = "tok_wr1"
    /\ CanWrite(token_lock)
    /\ token_lock' = AddWriter(token_lock, p)
    /\ Goto(p, "tok_wr2")
    /\ UNCHANGED <<platform, privacy_config, credential, tw, now, rl, access_token, token_expires_at, rate_lock,
                   expires_lock, op, loc, grants, issued, stored, sends>>

\* a store that keeps a token another caller stored in the meantime and
\* returns that one
TokWrite2_FirstKept(p) ==
    /\ pc[p] = "tok_wr2"
    /\ CanWrite(expires_lock)
    /\ token_lock' = Release(token_lock, p)
    /\ IF TokenValid(access_token, token_expires_at, now)
         THEN /\ UNCHANGED <<access_token, token_expires_at, stored>>
              /\ TokenReturned(p, [loc[p] EXCEPT !.token = access_token,
                                                 !.expires_at = token_expires_at,
                                                 !.pending = NoneV])
         ELSE /\ access_token' = Some(Unwrap(loc[p].pending).token)
              /\ token_expires_at' = Some(Unwrap(loc[p].pending).expires_at)
              /\ stored' = Some([issued_at |-> Unwrap(loc[p].pending).issued_at,
                                 expires_in |-> Unwrap(loc[p].pending).expires_in])
              /\ TokenReturned(p, [loc[p] EXCEPT !.token = Some(Unwrap(loc[p].pending).token),
                                                 !.expires_at = Some(Unwrap(loc[p].pending).expires_at),
                                                 !.pending = NoneV])
    /\ UNCHANGED <<platform, privacy_config, credential, tw, now, rl, rate_lock, expires_lock,
                   grants, issued, sends>>

\* lines 325-331: token_expires_at.write().await completes, both are stored,
\* both write guards go out of scope and the new token is returned
TokWrite2(p) ==
    /\ pc[p] = "tok_wr2"
    /\ CanWrite(expires_lock)
    /\ access_token' = Some(Unwrap(loc[p].pending).token)
    /\ token_expires_at' = Some(Unwrap(loc[p].pending).expires_at)
    /\ stored' = Some([issued_at |-> Unwrap(loc[p].pending).issued_at,
                       expires_in |-> Unwrap(loc[p].pending).expires_in])
    /\ token_lock' = Release(token_lock, p)
    /\ TokenReturned(p, [loc[p] EXCEPT !.token = Some(Unwrap(loc[p].pending).token),
                                       !.expires_at = Some(Unwrap(loc[p].pending).expires_at),
                                       !.pending = NoneV])
    /\ UNCHANGED <<platform, privacy_config, credential, tw, now, rl, rate_lock, expires_lock,
                   grants, issued, sends>>

\* The store of lines 322-328 taken one assignment at a time, as another
\* thread of the runtime would see it.
\* a store that holds no guard between its two assignments
TokStoreToken_Unguarded(p) ==
    /\ pc[p] = "tok_wr2"
    /\ CanWrite(expires_lock)
    /\ expires_lock' = expires_lock
    /\ token_lock' = Release(token_lock, p)
    /\ access_token' = Some(Unwrap(loc[p].pending).token)
    /\ Goto(p, "tok_wr3")
    /\ UNCHANGED <<platform, privacy_config, credential, tw, now, rl, token_expires_at, rate_lock,
                   op, loc, grants, issued, stored, sends>>

\* lines 325-326: token_expires_at.write().await completes and the token is
\* assigned
TokStoreToken(p) ==
    /\ pc[p] = "tok_wr2"
    /\ CanWrite(expires_lock)
    /\ expires_lock' = AddWriter(expires_lock, p)
    /\ access_token' = Some(Unwrap(loc[p].pending).token)
    /\ Goto(p, "tok_wr3")
    /\ UNCHANGED <<platform, privacy_config, credential, tw, now, rl, token_expires_at, rate_lock,
                   token_lock, op, loc, grants, issued, stored, sends>>

\* lines 327-331: the expiry is assigned, both write guards go out of scope
\* and the new token is returned
TokStoreExpiry(p) ==
    /\ pc[p] = "tok_wr3"
    /\ token_expires_at' = Some(Unwrap(loc[p].pending).expires_at)
    /\ stored' = Some([issued_at |-> Unwrap(loc[p].pending).issued_at,
                       expires_in |-> Unwrap(loc[p].pending).expires_in])
    /\ token_lock' = Release(token_lock, p)
    /\ expires_lock' = Release(expires_lock, p)
    /\ TokenReturned(p, [loc[p] EXCEPT !.token = Some(Unwrap(loc[p].pending).token),
                                       !.expires_at = Some(Unwrap(loc[p].pending).expires_at),
                                       !.pending = NoneV])
    /\ UNCHANGED <<platform, privacy_config, credential, tw, now, rl, access_token, rate_lock,
                   grants, issued, sends>>

(* ------------------- reddit: wait_for_rate_limit ------------------------ *)
\* wait_for_rate_limit returned Ok(()) to its caller (lines 362, 375, 386,
\* 396): the trait methods go on to send the request (lines 664, 724)
AcquireReturned(p, l) ==
    IF op[p] \in AcquireOps
      THEN /\ pc' = [pc EXCEPT ![p] = "idle"]
           /\ op' = [op EXCEPT ![p] = "none"]
           /\ loc' = [loc EXCEPT ![p] = NoLocals]
           /\ out' = [NoOut EXCEPT !.caller = p, !.op = op[p], !.res = "Ok",
                                   !.waited = l.waited, !.charged = l.charged,
                                   !.cause = l.cause]
      ELSE /\ Goto(p, "net_conn")
           /\ op' = op
           /\ loc' = [loc EXCEPT ![p] = [l EXCEPT !.sent = @ + 1]]

\* line 336: rate_limit_state.write().await completes
RlEnter(p) ==
    /\ pc[p] = "rl_wait"
    /\ CanWrite(rate_lock)
    /\ rate_lock' = AddWriter(rate_lock, p)
    /\ Goto(p, "rl_held")
    /\ UNCHANGED <<platform, privacy_config, credential, tw, now, rl, access_token, token_expires_at, token_lock,
                   expires_lock, op, loc, grants, issued, stored, sends>>

\* a rollover that moves the window on and keeps its count
RollMinute_KeepsCount(s, t) ==
    IF t - s.minute_window_start >= MinuteLen
      THEN [s EXCEPT !.minute_window_start = t]
      ELSE s
\* a minute window that is never reset
RollMinute_Never(s, t) == s
\* lines 339-343: reset the minute window when it has elapsed
RollMinute(s, t) ==
    IF t - s.minute_window_start >= MinuteLen
      THEN [s EXCEPT !.requests_this_minute = 0, !.minute_window_start = t]
      ELSE s

\* lines 345-349: reset the hour window when it has elapsed
RollHour(s, t) ==
    IF t - s.hour_window_start >= HourLen
      THEN [s EXCEPT !.requests_this_hour = 0, !.hour_window_start = t]
      ELSE s

Rolled(s, t) == RollHour(RollMinute(s, t), t)

\* line 352
MinuteExhausted(s) == s.requests_this_minute >= MinuteCap
\* a limiter that lets one call too many through
HourExhausted_OffByOne(s) == s.requests_this_hour > HourCap
\* line 365
HourExhausted(s) == s.requests_this_hour >= HourCap

\* lines 353-354 and 366-367: time left until the window rolls over
MinuteWait(s, t) == (s.minute_window_start + MinuteLen) - t
HourWait(s, t) == (s.hour_window_start + HourLen) - t

\* lines 379-381: the last request is less than the minimum spacing ago
TooSoon(s, t) ==
    IsSome(s.last_request) /\ t - Unwrap(s.last_request) < RedditSpacing
\* lines 380-382
SpacingWait(s, t) == RedditSpacing - (t - Unwrap(s.last_request))

\* a call counted twice
Counted_Twice(s, t) ==
    [s EXCEPT !.requests_this_minute = @ + 2,
              !.requests_this_hour = @ + 2,
              !.last_request = Some(t)]
\* lines 391-394: count the call
Counted(s, t) ==
    [s EXCEPT !.requests_this_minute = @ + 1,
              !.requests_this_hour = @ + 1,
              !.last_request = Some(t)]

\* lines 351-389: how long the call sleeps; -1 when it does not sleep at all.
\* Duration::to_std fails on a negative duration: the window branches answer
\* Generic (lines 354-357, 367-370), the spacing branch falls through (383).
RedditWaitFor(s, t) ==
    IF MinuteExhausted(s) THEN MinuteWait(s, t)
    ELSE IF HourExhausted(s) THEN HourWait(s, t)
    ELSE IF TooSoon(s, t) /\ SpacingWait(s, t) >= 0 THEN SpacingWait(s, t)
    ELSE -1

\* lines 352, 365, 379: the branch that puts the call to sleep
RedditWaitCause(s, t) ==
    IF MinuteExhausted(s) THEN "minute"
    ELSE IF HourExhausted(s) THEN "hour"
    ELSE "spacing"

RedditWaitFails(s, t) ==
    \/ MinuteExhausted(s) /\ MinuteWait(s, t) < 0
    \/ ~MinuteExhausted(s) /\ HourExhausted(s) /\ HourWait(s, t) < 0

\* a limiter that goes to sleep with the guard still in hand
DropBeforeSleep_Kept(l, p) == l
\* lines 360, 373, 384: drop(state) before sleeping
DropBeforeSleep(l, p) == Release(l, p)

\* lines 337-397: the body of wait_for_rate_limit under the write guard
RlCheck(p) ==
    /\ pc[p] = "rl_held"
    /\ LET s == Rolled(rl, now) IN
       IF RedditWaitFails(s, now)
         THEN /\ rl' = s
              /\ rate_lock' = Release(rate_lock, p)
              /\ Finish(p, Ret("Generic"), 0)
              /\ grants' = grants
       ELSE IF RedditWaitFor(s, now) >= 0
         THEN /\ rl' = s
              /\ rate_lock' = DropBeforeSleep(rate_lock, p)
              /\ loc' = [loc EXCEPT ![p].wake = Some(now + RedditWaitFor(s, now)),
                                    ![p].waited = TRUE,
                                    ![p].cause = RedditWaitCause(s, now)]
              /\ Goto(p, "rl_sleep")
              /\ UNCHANGED <<op, grants>>
         ELSE /\ rl' = Counted(s, now)
              /\ rate_lock' = Release(rate_lock, p)
              /\ grants' = Append(grants, now)
              /\ AcquireReturned(p, [loc[p] EXCEPT !.charged = TRUE])
    /\ UNCHANGED <<platform, privacy_config, credential, tw, now, access_token, token_expires_at, token_lock,
                   expires_lock, issued, stored, sends>>

\* a sleep after which the call counts its request
RlWake_Counted(p) ==
    /\ pc[p] = "rl_sleep"
    /\ now >= Unwrap(loc[p].wake)
    /\ rl' = Counted(rl, now)
    /\ AcquireReturned(p, loc[p])
    /\ UNCHANGED <<platform, privacy_config, credential, tw, now, access_token, token_expires_at, rate_lock,
                   token_lock, expires_lock, grants, issued, stored, sends>>

\* lines 361-362, 374-375, 385-386: the sleep ends and the call returns Ok(())
RlWake(p) ==
    /\ pc[p] = "rl_sleep"
    /\ now >= Unwrap(loc[p].wake)
    /\ AcquireReturned(p, loc[p])
    /\ UNCHANGED <<platform, privacy_config, credential, tw, now, rl, access_token, token_expires_at, rate_lock,
                   token_lock, expires_lock, grants, issued, stored, sends>>

(* ---------------- reddit: request, response, result --------------------- *)
\* lines 664-669 / 724-729: send() fails before the request is on the wire
RedditNetFail(p) ==
    /\ platform = "reddit"
    /\ pc[p] = "net_conn"
    /\ Finish(p, Ret("NetworkError"), 0)
    /\ UNCHANGED <<platform, privacy_config, credential, tw, now, rl, access_token, token_expires_at, rate_lock,
                   token_lock, expires_lock, grants, issued, stored, sends>>

\* the record of requests sent, with one more sent at time t
Sent(history, t) ==
    IF IsSome(history) THEN Some(Append(Unwrap(history), t)) ELSE history

\* lines 664-668 / 724-728: the request leaves with the bearer token
RedditTransmit(p) ==
    /\ platform = "reddit"
    /\ pc[p] = "net_conn"
    /\ loc' = [loc EXCEPT ![p].charged = FALSE, ![p].wake = NoneV]
    /\ sends' = Sent(sends, now)
    /\ Goto(p, "net_resp")
    /\ UNCHANGED <<platform, privacy_config, credential, tw, now, rl, access_token, token_expires_at, rate_lock,
                   token_lock, expires_lock, op, grants, issued, stored>>

\* what a response body holds: a well-formed post, no item at all, or bytes
\* that do not parse
RedditBodies == {"post", "empty", "malformed"}

\* lines 671-708: result of search_posts for a response
RedditSearchOutcome(s, body) ==
    IF ~IsSuccess(s) THEN ApiError(s)
    ELSE IF body = "malformed" THEN Ret("ParseError")
    ELSE Ret("OkPosts")

\* lines 731-771: result of get_post_by_id for a response
RedditGetPostOutcome(s, body) ==
    IF s = 404 THEN Ret("OkNone")
    ELSE IF ~IsSuccess(s) THEN ApiError(s)
    ELSE IF body = "malformed" THEN Ret("ParseError")
    ELSE IF body = "empty" THEN Ret("OkNone")
    ELSE Ret("OkSome")

RedditOutcome(o, s, body) ==
    IF o = "get_post_by_id" THEN RedditGetPostOutcome(s, body)
    ELSE RedditSearchOutcome(s, body)

\* a response handler that sends the request once more after a failure
RedditResponse_Retry(p, s, body) ==
    /\ platform = "reddit"
    /\ pc[p] = "net_resp"
    /\ IF ~IsSuccess(s) /\ loc[p].sent < 2
         THEN /\ Goto(p, "net_conn")
              /\ loc' = [loc EXCEPT ![p].sent = @ + 1]
              /\ op' = op
         ELSE Finish(p, RedditOutcome(op[p], s, body), s)
    /\ UNCHANGED <<platform, privacy_config, credential, tw, now, rl, access_token, token_expires_at, rate_lock,
                   token_lock, expires_lock, grants, issued, stored, sends>>
\* lines 671-708 / 731-771: the response arrives and is turned into the result
RedditResponse(p, s, body) ==
    /\ platform = "reddit"
    /\ pc[p] = "net_resp"
    /\ Finish(p, RedditOutcome(op[p], s, body), s)
    /\ UNCHANGED <<platform, privacy_config, credential, tw, now, rl, access_token, token_expires_at, rate_lock,
                   token_lock, expires_lock, grants, issued, stored, sends>>

\* lines 629-647: the RateLimitInfo built from the limiter state
RedditRateLimitInfo(s) ==
    LET minute_remaining == MinuteCap - s.requests_this_minute
        hour_remaining == HourCap - s.requests_this_hour
        minute_reset == s.minute_window_start + MinuteLen
        hour_reset == s.hour_window_start + HourLen
    IN [remaining |-> IF minute_remaining <= hour_remaining
                        THEN minute_remaining ELSE hour_remaining,
        limit |-> MinuteCap,
        reset_time |-> IF minute_remaining < hour_remaining
                         THEN minute_reset ELSE hour_reset,
        window_duration |-> MinuteLen]

\* lines 624-648: get_rate_limit_status under the read guard
RedditStatus(p) ==
    /\ platform = "reddit"
    /\ pc[p] = "st_wait"
    /\ CanRead(rate_lock)
    /\ pc' = [pc EXCEPT ![p] = "idle"]
    /\ op' = [op EXCEPT ![p] = "none"]
    /\ loc' = [loc EXCEPT ![p] = NoLocals]
    /\ out' = [NoOut EXCEPT !.caller = p, !.op = op[p], !.res = "OkInfo",
                            !.at = pc[p], !.info = Some(RedditRateLimitInfo(rl))]
    /\ UNCHANGED <<platform, privacy_config, credential, tw, now, rl, access_token, token_expires_at, rate_lock,
                   token_lock, expires_lock, grants, issued, stored, sends>>

(* ------------------- twitter: wait_for_rate_limit ----------------------- *)
TwitterApiOps == {"search_posts", "get_post_by_id"}

\* validate_credentials sends its request without wait_for_rate_limit
\* (lines 879-885)
TwitterFirstStep(o) ==
    IF o \in StatusOps THEN "st_wait"
    ELSE IF o \in ValidateOps THEN "net_conn"
    ELSE "tw_wait"

TwitterCall(p, o) ==
    /\ platform = "twitter"
    /\ pc[p] = "idle"
    /\ Goto(p, TwitterFirstStep(o))
    /\ op' = [op EXCEPT ![p] = o]
    /\ loc' = [loc EXCEPT ![p] =
                  [NoLocals EXCEPT !.sent = IF o \in ValidateOps THEN 1 ELSE 0]]
    /\ UNCHANGED <<platform, privacy_config, credential, tw, now, rl, access_token, token_expires_at,
                   rate_lock, token_lock, expires_lock, grants, issued,
                   stored, sends>>

\* line 360: rate_limit_state.read().await completes
TwEnter(p) ==
    /\ pc[p] = "tw_wait"
    /\ CanRead(rate_lock)
    /\ rate_lock' = AddReader(rate_lock, p)
    /\ Goto(p, "tw_held")
    /\ UNCHANGED <<platform, privacy_config, credential, tw, now, rl, access_token, token_expires_at,
                   token_lock, expires_lock, op, loc, grants, issued,
                   stored, sends>>

\* lines 362-364
TwitterExhausted(s, t) == s.remaining = 0 /\ t < s.reset_time
\* a wait that ends one tick before the window resets
TwitterResetWait_Early(s, t) == s.reset_time - t - 1
\* line 365
TwitterResetWait(s, t) == s.reset_time - t
\* lines 377-379
TwitterTooSoon(last, t) == IsSome(last) /\ t - Unwrap(last) < TwitterSpacing
\* line 380
TwitterSpacingWait(last, t) == TwitterSpacing - (t - Unwrap(last))
\* lines 371, 382: drop(state) before sleeping
TwitterDropBeforeSleep(l, p) == Release(l, p)

\* line 388: wait_for_rate_limit returns Ok(()) to the trait method, which
\* goes on to send the request
TwAcquireReturned(p, l) ==
    /\ pc' = [pc EXCEPT ![p] = "net_conn"]
    /\ loc' = [loc EXCEPT ![p] = [l EXCEPT !.sent = @ + 1]]
    /\ out' = [NoOut EXCEPT !.caller = p, !.op = "wait_for_rate_limit",
                            !.res = "Ok", !.waited = l.waited]

\* lines 376-388: the spacing check against last request time last; without a
\* sleep the function ends and the read guard goes out of scope
TwSpacing(p, last, l) ==
    IF TwitterTooSoon(last, now)
      THEN /\ loc' = [loc EXCEPT ![p] =
                        [l EXCEPT !.wake = Some(now + TwitterSpacingWait(last, now)),
                                  !.waited = TRUE]]
           /\ Goto(p, "tw_sleep2")
      ELSE TwAcquireReturned(p, l)

\* lines 365-368: to_std fails on a negative duration
TwitterWaitFails(s, t) == TwitterExhausted(s, t) /\ TwitterResetWait(s, t) < 0

\* lines 362-388 under the read guard
TwCheck(p) ==
    /\ pc[p] = "tw_held"
    /\ LET l == [loc[p] EXCEPT !.seen = Some(tw)] IN
       IF TwitterWaitFails(tw, now)
         THEN /\ rate_lock' = Release(rate_lock, p)
              /\ Finish(p, Ret("Generic"), 0)
       ELSE IF TwitterExhausted(tw, now)
         THEN /\ rate_lock' = TwitterDropBeforeSleep(rate_lock, p)
              /\ loc' = [loc EXCEPT ![p] =
                           [l EXCEPT !.wake = Some(now + TwitterResetWait(tw, now)),
                                     !.waited = TRUE, !.exhausted = TRUE]]
              /\ Goto(p, "tw_sleep1")
              /\ op' = op
         ELSE /\ rate_lock' = TwitterDropBeforeSleep(rate_lock, p)
              /\ TwSpacing(p, tw.last_request, l)
              /\ op' = op
    /\ UNCHANGED <<platform, privacy_config, credential, tw, now, rl, access_token, token_expires_at,
                   token_lock, expires_lock, grants, issued, stored, sends>>

\* line 377 after line 371: state was moved by drop(state); what the read of
\* state.last_request yields is the value under the dropped guard or the
\* current one
StaleReads(p) == {Unwrap(loc[p].seen).last_request, tw.last_request}

\* lines 372-388: the sleep until reset_time ends, the spacing check follows
TwWake1(p) ==
    /\ pc[p] = "tw_sleep1"
    /\ now >= Unwrap(loc[p].wake)
    /\ \E last \in StaleReads(p) :
          TwSpacing(p, last, [loc[p] EXCEPT !.wake = NoneV])
    /\ UNCHANGED <<platform, privacy_config, credential, tw, now, rl, access_token, token_expires_at,
                   rate_lock, token_lock, expires_lock, op, grants,
                   issued, stored, sends>>

\* a spacing sleep after which the call takes the lock and checks again
TwWake2_Rechecks(p) ==
    /\ pc[p] = "tw_sleep2"
    /\ now >= Unwrap(loc[p].wake)
    /\ Goto(p, "tw_wait")
    /\ loc' = [loc EXCEPT ![p].wake = NoneV]
    /\ UNCHANGED <<platform, privacy_config, credential, tw, now, rl, access_token, token_expires_at,
                   rate_lock, token_lock, expires_lock, op, grants,
                   issued, stored, sends>>

\* lines 383-388: the spacing sleep ends and the call returns Ok(())
TwWake2(p) ==
    /\ pc[p] = "tw_sleep2"
    /\ now >= Unwrap(loc[p].wake)
    /\ TwAcquireReturned(p, [loc[p] EXCEPT !.wake = NoneV])
    /\ UNCHANGED <<platform, privacy_config, credential, tw, now, rl, access_token, token_expires_at,
                   rate_lock, token_lock, expires_lock, op, grants,
                   issued, stored, sends>>

(* ---------------- twitter: request, response, result -------------------- *)
\* lines 732-736 / 803-807: send() fails in transport
TwNetFail(p) ==
    /\ platform = "twitter"
    /\ pc[p] = "net_conn"
    /\ Finish(p, Ret("NetworkError"), 0)
    /\ UNCHANGED <<platform, privacy_config, credential, tw, now, rl, access_token, token_expires_at,
                   rate_lock, token_lock, expires_lock, grants, issued,
                   stored, sends>>

\* lines 732-734 / 803-805: the request leaves
TwTransmit(p) ==
    /\ platform = "twitter"
    /\ pc[p] = "net_conn"
    /\ loc' = [loc EXCEPT ![p].seen = NoneV]
    /\ sends' = Sent(sends, now)
    /\ Goto(p, "net_resp")
    /\ UNCHANGED <<platform, privacy_config, credential, tw, now, rl, access_token, token_expires_at,
                   rate_lock, token_lock, expires_lock, op, grants,
                   issued, stored>>

\* lines 735-739 / 806-810: the response arrives; update_rate_limit is called
\* and waits for the write guard (line 393)
TwResponse(p) ==
    /\ platform = "twitter"
    /\ pc[p] = "net_resp"
    /\ op[p] \in TwitterApiOps
    /\ Goto(p, "upd_wait")
    /\ UNCHANGED <<platform, privacy_config, credential, tw, now, rl, access_token, token_expires_at,
                   rate_lock, token_lock, expires_lock, op, loc, grants,
                   issued, stored, sends>>

\* a response header: absent, not a number, a number, or (reset only) a
\* number that is no valid timestamp
Absent == [kind |-> "absent", val |-> 0]
Garbage == [kind |-> "garbage", val |-> 0]
OutOfRange == [kind |-> "range", val |-> 0]
Num(n) == [kind |-> "num", val |-> n]
RemainingHeaders == {Absent, Num(0), Num(1)}
LimitHeaders == {Absent, Num(TwitterLimit)}
ResetHeaders(t) == {Garbage, OutOfRange, Num(t + TwitterWindow)}

\* a parse that stores 0 for a header it cannot read
HeaderOr_Zeroed(h, old) == IF h.kind = "num" THEN h.val ELSE 0
\* lines 395-418: one header field parsed into the state, or left as it was
HeaderOr(h, old) == IF h.kind = "num" THEN h.val ELSE old
\* lines 411-418: timestamp_opt(..).single() or now + 15 minutes
ResetOr(h, old, t) ==
    IF h.kind = "num" THEN h.val
    ELSE IF h.kind = "range" THEN t + TwitterWindow
    ELSE old

\* lines 392-421
UpdateRateLimit(s, h, t) ==
    [remaining |-> HeaderOr(h.remaining, s.remaining),
     limit |-> HeaderOr(h.limit, s.limit),
     reset_time |-> ResetOr(h.reset, s.reset_time, t),
     last_request |-> Some(t)]

TwitterBodies == {"post", "empty", "malformed", "errors"}
\* status and body of a response; the body of a failure is only its message
Responses(bodies) ==
    {r \in Statuses \X (bodies \cup {"message"}) :
        IsSuccess(r[1]) <=> r[2] # "message"}

\* lines 741-787: result of search_posts for a response
TwitterSearchOutcome(s, body) ==
    IF ~IsSuccess(s) THEN ApiError(s)
    ELSE IF body = "malformed" THEN Ret("ParseError")
    ELSE IF body = "errors" THEN ApiError(400)
    ELSE Ret("OkPosts")

\* a lookup that reports a missing post as an error
TwitterGetPostOutcome_NotFoundIsError(s, body) ==
    IF ~IsSuccess(s) THEN ApiError(s)
    ELSE IF body = "malformed" THEN Ret("ParseError")
    ELSE IF body = "post" THEN Ret("OkSome")
    ELSE Ret("OkNone")
\* lines 812-853: result of get_post_by_id for a response
TwitterGetPostOutcome(s, body) ==
    IF s = 404 THEN Ret("OkNone")
    ELSE IF ~IsSuccess(s) THEN ApiError(s)
    ELSE IF body = "malformed" THEN Ret("ParseError")
    ELSE IF body = "post" THEN Ret("OkSome")
    ELSE Ret("OkNone")

\* the headers of a response, kept where the requests sent are recorded
HeadersSeen(history, h) == IF IsSome(history) THEN Some(h) ELSE NoneV

TwitterOutcome(o, s, body) ==
    IF o = "get_post_by_id" THEN TwitterGetPostOutcome(s, body)
    ELSE TwitterSearchOutcome(s, body)

\* an update that also charges the response to the limiter of the Reddit
\* connector, as one limiter shared by the platforms would
TwUpdate_SharedLimiter(p, s, body, h) ==
    /\ pc[p] = "upd_wait"
    /\ CanWrite(rate_lock)
    /\ tw' = UpdateRateLimit(tw, h, now)
    /\ rl' = Counted(rl, now)
    /\ Finish(p, TwitterOutcome(op[p], s, body), s)
    /\ UNCHANGED <<platform, privacy_config, credential, now, access_token, token_expires_at,
                   rate_lock, token_lock, expires_lock, grants, issued,
                   stored, sends>>
\* lines 393-421 then 741-787 / 812-853: the write guard is granted, the
\* state is updated from the headers and the response is turned into the result
TwUpdate(p, s, body, h) ==
    /\ pc[p] = "upd_wait"
    /\ CanWrite(rate_lock)
    /\ tw' = UpdateRateLimit(tw, h, now)
    /\ FinishWith(p, TwitterOutcome(op[p], s, body), s, HeadersSeen(sends, h))
    /\ UNCHANGED <<platform, privacy_config, credential, now, rl, access_token, token_expires_at,
                   rate_lock, token_lock, expires_lock, grants, issued,
                   stored, sends>>

\* lines 886-902: result of validate_credentials for a response
TwitterValidateOutcome(s) ==
    IF s = 200 THEN Ret("OkTrue")
    ELSE IF s = 401 THEN Ret("OkFalse")
    ELSE ApiError(s)

\* lines 886-902: the response to the validation request arrives
TwValidate(p, s) ==
    /\ platform = "twitter"
    /\ pc[p] = "net_resp"
    /\ op[p] \in ValidateOps
    /\ Finish(p, TwitterValidateOutcome(s), s)
    /\ UNCHANGED <<platform, privacy_config, credential, tw, now, rl, access_token, token_expires_at,
                   rate_lock, token_lock, expires_lock, grants, issued,
                   stored, sends>>

\* lines 711-719: get_rate_limit_status under the read guard
TwitterStatus(p) ==
    /\ platform = "twitter"
    /\ pc[p] = "st_wait"
    /\ CanRead(rate_lock)
    /\ Finish(p, Ret("OkInfo"), 0)
    /\ UNCHANGED <<platform, privacy_config, credential, tw, now, rl, access_token, token_expires_at,
                   rate_lock, token_lock, expires_lock, grants, issued,
                   stored, sends>>

(* ------------------------ placeholder connectors ------------------------ *)
Queries == {"", "rust"}
PostIds == {"", "42"}

\* a placeholder that fails like the YouTube one
InstagramSearch_Generic(params) == Ret("Generic")
\* instagram.rs search_posts
InstagramSearch(params) == Ret("ConfigError")
\* telegram.rs search_posts
TelegramSearch(params) == Ret("ConfigError")
\* youtube.rs search_posts
YouTubeSearch(params) == Ret("Generic")
\* get_post_by_id of the three
PlaceholderGetPost(id) == Ret("Generic")

PlaceholderSearch(pl, params) ==
    IF pl = "instagram" THEN InstagramSearch(params)
    ELSE IF pl = "telegram" THEN TelegramSearch(params)
    ELSE YouTubeSearch(params)

\* the methods have no await: a call is one step
PlaceholderCall(p, o, a) ==
    /\ platform \in Placeholders
    /\ pc[p] = "idle"
    /\ out' = [NoOut EXCEPT !.caller = p, !.op = o, !.arg = a,
                            !.res = IF o = "search_posts"
                                      THEN PlaceholderSearch(platform, a).res
                                      ELSE PlaceholderGetPost(a).res]
    /\ UNCHANGED <<platform, privacy_config, credential, tw, now, rl, access_token, token_expires_at,
                   rate_lock, token_lock, expires_lock, pc, op, loc, grants, issued, stored, sends>>

(* ----------------------------- is_configured ---------------------------- *)
RedditIsConfigured_Either(c) == c.client_id # "" \/ c.client_secret # ""
\* reddit.rs 620-622
RedditIsConfigured(c) == c.client_id # "" /\ c.client_secret # ""

\* twitter.rs 707-709, instagram.rs 43-45, telegram.rs 44-46, youtube.rs 44-46
TokenIsConfigured(c) == c # ""

\* is_configured(&self): no await, and callable whatever else is running
IsConfigured(p) ==
    /\ out' = [NoOut EXCEPT !.caller = p, !.op = "is_configured",
                            !.res = IF (IF platform = "reddit"
                                        THEN RedditIsConfigured(credential)
                                        ELSE TokenIsConfigured(credential))
                                    THEN "true" ELSE "false"]
    /\ UNCHANGED <<platform, privacy_config, credential, tw, now, rl, access_token,
                   token_expires_at, rate_lock, token_lock, expires_lock, pc, op, loc,
                   grants, issued, stored, sends>>

(* ------------------------------ search URL ------------------------------ *)
\* SearchParams.max_results: absent, a small count, or a large one
MaxRequested == 103
LargeRequest == 1000000
RequestedResults == {NoneV} \cup {Some(n) : n \in (0..MaxRequested) \cup {LargeRequest}}
Dates == {NoneV, Some(0)}

\* the most results one request asks for, and each platform's default
ResultCap == 100
TwitterDefaultResults == 10
RedditDefaultResults == 25

\* u32::to_string: the decimal digits of n, most significant first
DigitChars == <<"0", "1", "2", "3", "4", "5", "6", "7", "8", "9">>
RECURSIVE ToDigits(_)
ToDigits(n) ==
    IF n < 10 THEN <<DigitChars[n + 1]>>
    ELSE Append(ToDigits(n \div 10), DigitChars[(n % 10) + 1])

\* urlencoding::encode on a sequence of characters: unreserved characters
\* (the digits among them) pass, any other is percent-encoded
UnreservedChars == {DigitChars[i] : i \in DOMAIN DigitChars} \cup {"-", "_", ".", "~"}
RECURSIVE UrlEncode(_)
UrlEncode(v) ==
    IF v = <<>> THEN <<>>
    ELSE (IF Head(v) \in UnreservedChars THEN <<Head(v)>> ELSE <<"%", Head(v)>>)
             \o UrlEncode(Tail(v))

\* the encoded form of a query string, and the RFC 3339 form of a date
EncodedQuery(q) == <<"urlencoded", q>>
Rfc3339(t) == <<"rfc3339", t>>

Min(a, b) == IF a <= b THEN a ELSE b

TwitterResultCount_Uncapped(max_results) ==
    IF IsSome(max_results) THEN Unwrap(max_results) ELSE TwitterDefaultResults
\* twitter.rs 649: params.max_results.unwrap_or(10).min(100)
TwitterResultCount(max_results) ==
    Min(IF IsSome(max_results) THEN Unwrap(max_results) ELSE TwitterDefaultResults,
        ResultCap)

\* reddit.rs 595: params.max_results.unwrap_or(25).min(100)
RedditResultCount(max_results) ==
    Min(IF IsSome(max_results) THEN Unwrap(max_results) ELSE RedditDefaultResults,
        ResultCap)

\* twitter.rs 645-698: the query parameters of the built URL, in order (the
\* fixed field lists and expansions are left out)
TwitterBuildSearchUrl(params) ==
    <<[key |-> "query", value |-> EncodedQuery(params.query)],
      [key |-> "max_results",
       value |-> UrlEncode(ToDigits(TwitterResultCount(params.max_results)))]>>
    \o (IF IsSome(params.start_date)
        THEN <<[key |-> "start_time", value |-> Rfc3339(Unwrap(params.start_date))]>> ELSE <<>>)
    \o (IF IsSome(params.end_date)
        THEN <<[key |-> "end_time", value |-> Rfc3339(Unwrap(params.end_date))]>> ELSE <<>>)

\* reddit.rs 589-611
RedditBuildSearchUrl(params) ==
    <<[key |-> "q", value |-> EncodedQuery(params.query)],
      [key |-> "type", value |-> "link"],
      [key |-> "sort", value |-> "relevance"],
      [key |-> "limit",
       value |-> UrlEncode(ToDigits(RedditResultCount(params.max_results)))]>>
    \o (IF IsSome(params.start_date) \/ IsSome(params.end_date)
        THEN <<[key |-> "t", value |-> "all"]>> ELSE <<>>)

\* search_posts builds its URL (twitter.rs 728, reddit.rs 660)
BuildSearchUrl(params) ==
    /\ platform \in {"reddit", "twitter"}
    /\ out' = [NoOut EXCEPT !.op = "build_search_url",
                            !.raw = Some([query |-> params.query,
                                          max_results |-> params.max_results,
                                          start_date |-> params.start_date,
                                          end_date |-> params.end_date]),
                            !.items = IF platform = "reddit"
                                      THEN RedditBuildSearchUrl(params)
                                      ELSE TwitterBuildSearchUrl(params)]
    /\ UNCHANGED <<platform, privacy_config, credential, tw, now, rl, access_token,
                   token_expires_at, rate_lock, token_lock, expires_lock, pc, op, loc,
                   grants, issued, stored, sends>>

(* ------------------------- batch responses ------------------------------ *)
MaxBatch == 3

\* one item of the list in a 2xx batch response: a well-formed post ("a",
\* "b"), an item whose post fields do not deserialize ("badpost"), an item
\* that is not even a listing entry ("badentry")
WellFormed == {"a", "b"}
Items == WellFormed \cup {"badpost", "badentry"}

RECURSIVE SeqsUpTo(_, _)
SeqsUpTo(S, n) ==
    IF n = 0 THEN {<<>>}
    ELSE LET shorter == SeqsUpTo(S, n - 1) IN
         shorter \cup {Append(q, x) : q \in {t \in shorter : Len(t) = n - 1}, x \in S}

Batches == SeqsUpTo(Items, MaxBatch)

IsWellFormed(x) == x \in WellFormed

\* reddit.rs lines 683-708 (search_posts) and 811-836 (get_user_posts): the
\* listing is deserialized as a whole with every child's data kept as raw
\* JSON, then each child is parsed on its own and skipped when that fails
RedditBatch(items) ==
    IF \E i \in DOMAIN items : items[i] = "badentry"
      THEN [res |-> "ParseError", posts |-> <<>>]
      ELSE [res |-> "OkPosts", posts |-> SelectSeq(items, IsWellFormed)]

\* twitter.rs lines 753-787: the response is deserialized as a whole, tweets
\* included, then every tweet is converted
TwitterBatch(items) ==
    IF \E i \in DOMAIN items : ~IsWellFormed(items[i])
      THEN [res |-> "ParseError", posts |-> <<>>]
      ELSE [res |-> "OkPosts", posts |-> items]

\* the body of a 2xx batch response is turned into the result of the call
ParseBatch(p, o, items) ==
    /\ platform \in {"reddit", "twitter"}
    /\ pc[p] = "idle"
    /\ LET r == IF platform = "reddit" THEN RedditBatch(items)
                ELSE TwitterBatch(items) IN
       out' = [NoOut EXCEPT !.caller = p, !.op = o, !.at = "batch", !.status = 200,
                            !.items = items, !.res = r.res, !.posts = r.posts]
    /\ UNCHANGED <<platform, privacy_config, credential, tw, now, rl, access_token, token_expires_at,
                   rate_lock, token_lock, expires_lock, pc, op, loc, grants, issued, stored, sends>>

(* ---------------------------- cancellation ------------------------------ *)
\* the awaits of the source: a task can be dropped only there
SuspensionPoints ==
    {"tok_rd1", "tok_rd2", "tok_net", "tok_wr1", "tok_wr2", "rl_wait",
     "rl_sleep", "net_conn", "net_resp", "st_wait",
     "tw_wait", "tw_sleep1", "tw_sleep2", "upd_wait"}
Sleeping == {"rl_sleep", "tw_sleep1", "tw_sleep2"}
InNetwork == {"tok_net", "net_conn", "net_resp"}

\* a cancellation that leaves the guards of the dropped future in place
DropGuards_Leaked(l, p) == l
\* dropping the future drops every guard it owns
DropGuards(l, p) == Release(l, p)

Cancel(p) ==
    /\ pc[p] \in SuspensionPoints
    /\ rate_lock' = DropGuards(rate_lock, p)
    /\ token_lock' = DropGuards(token_lock, p)
    /\ expires_lock' = DropGuards(expires_lock, p)
    /\ Finish(p, Ret("cancelled"), 0)
    /\ UNCHANGED <<platform, privacy_config, credential, tw, now, rl, access_token, token_expires_at,
                   grants, issued, stored, sends>>

(* -------------------------------- time ---------------------------------- *)
\* a sleeper whose deadline has come runs before the clock moves on
Due(p) == pc[p] \in Sleeping /\ now >= Unwrap(loc[p].wake)

Tick(horizon) ==
    /\ now < horizon
    /\ \A p \in Callers : ~Due(p)
    /\ now' = now + 1
    /\ out' = NoOut
    /\ UNCHANGED <<platform, privacy_config, credential, tw, rl, access_token, token_expires_at, rate_lock,
                   token_lock, expires_lock, pc, op, loc, grants,
                   issued, stored, sends>>

(* --------------------------- specifications ----------------------------- *)
\* cap: how many tokens the token endpoint issues in a run
TokenSteps(p, cap) ==
    \/ TokRead1(p)
    \/ TokRead2(p)
    \/ TokNetFail(p)
    \/ \E s \in Statuses, parses \in BOOLEAN, e \in ExpiresInValues :
          TokResponse(p, s, parses, e, cap)
    \/ TokWrite1(p)
    \/ TokWrite2(p)

AcquireSteps(p) ==
    \/ RlEnter(p)
    \/ RlCheck(p)
    \/ RlWake(p)

RedditSteps(p) ==
    \/ RedditNetFail(p)
    \/ RedditTransmit(p)
    \/ \E sb \in Responses(RedditBodies) : RedditResponse(p, sb[1], sb[2])
    \/ RedditStatus(p)

TwitterSteps(p) ==
    \/ TwEnter(p)
    \/ TwCheck(p)
    \/ TwWake1(p)
    \/ TwWake2(p)
    \/ TwNetFail(p)
    \/ TwTransmit(p)
    \/ TwResponse(p)
    \/ \E sb \in Responses(TwitterBodies), r \in RemainingHeaders,
          l \in LimitHeaders, t \in ResetHeaders(now) :
          TwUpdate(p, sb[1], sb[2], [remaining |-> r, limit |-> l, reset |-> t])
    \/ TwitterStatus(p)

\* the connectors as the orchestrator uses them
Next ==
    \/ \E p \in Callers, o \in RedditApiOps \cup StatusOps : RedditCall(p, o)
    \/ \E p \in Callers : TokenSteps(p, CallTokens)
    \/ \E p \in Callers : AcquireSteps(p)
    \/ \E p \in Callers : RedditSteps(p)
    \/ \E p \in Callers, o \in TwitterApiOps \cup StatusOps : TwitterCall(p, o)
    \/ \E p \in Callers : TwitterSteps(p)
    \/ \E p \in Callers, a \in Queries : PlaceholderCall(p, "search_posts", a)
    \/ \E p \in Callers, a \in PostIds : PlaceholderCall(p, "get_post_by_id", a)
    \/ \E p \in Callers : Cancel(p)
    \/ Tick(IF platform = "twitter" THEN TwitterHorizon ELSE Horizon)

Spec == Init /\ [][Next]_vars

\* a freshly constructed Reddit connector
InitReddit == Init /\ platform = "reddit"

\* the proactive limiter on its own: tasks calling acquire()
NextAcquire ==
    \/ \E p \in Callers : RedditCall(p, "acquire")
    \/ \E p \in Callers : AcquireSteps(p)
    \/ Tick(MaxTime)

SpecAcquire == InitReddit /\ [][NextAcquire]_vars

\* the token manager on its own: tasks calling get_token()
NextToken ==
    \/ \E p \in Callers : RedditCall(p, "get_token")
    \/ \E p \in Callers : TokenSteps(p, MaxTokens)
    \/ \E p \in Callers : Cancel(p)
    \/ Tick(MaxTime)

SpecToken == InitReddit /\ [][NextToken]_vars

\* the token cache with the store taken one assignment at a time
InitPair == Init /\ platform = "reddit"

NextPair ==
    \/ \E p \in Callers : RedditCall(p, "get_token")
    \/ \E p \in Callers : TokRead1(p)
    \/ \E p \in Callers : TokRead2(p)
    \/ \E p \in Callers : TokNetFail(p)
    \/ \E p \in Callers, s \in Statuses, parses \in BOOLEAN, e \in ExpiresInValues :
          TokResponse(p, s, parses, e, MaxTokens)
    \/ \E p \in Callers : TokWrite1(p)
    \/ \E p \in Callers : TokStoreToken(p)
    \/ \E p \in Callers : TokStoreExpiry(p)
    \/ \E p \in Callers : Cancel(p)
    \/ Tick(MaxTime)

SpecPair == InitPair /\ [][NextPair]_vars

\* the two token locks, with the waiters of the token lock served in order of
\* arrival as tokio's RwLock serves them
InitLocks == Init /\ platform = "reddit"

\* a task that finds the token lock taken, or other tasks waiting for it,
\* joins the waiters
TokenQueue(p) ==
    /\ pc[p] \in {"tok_rd1", "tok_wr1"}
    /\ ~Waiting(token_lock, p)
    /\ \/ token_lock.q # <<>>
       \/ (IF pc[p] = "tok_rd1" THEN ~CanRead(token_lock) ELSE ~CanWrite(token_lock))
    /\ token_lock' = [token_lock EXCEPT !.q = Append(@, p)]
    /\ out' = NoOut
    /\ UNCHANGED <<platform, privacy_config, credential, tw, now, rl, access_token, token_expires_at,
                   rate_lock, expires_lock, pc, op, loc, grants, issued, stored, sends>>

QueuedRead1(p) == Turn(token_lock, p) /\ TokRead1(p)
QueuedWrite1(p) == Turn(token_lock, p) /\ TokWrite1(p)

NextLocks ==
    \/ \E p \in Callers : RedditCall(p, "get_token")
    \/ \E p \in Callers : TokenQueue(p)
    \/ \E p \in Callers : QueuedRead1(p)
    \/ \E p \in Callers : TokRead2(p)
    \/ \E p \in Callers : TokNetFail(p)
    \/ \E p \in Callers, s \in Statuses, parses \in BOOLEAN, e \in ExpiresInValues :
          TokResponse(p, s, parses, e, MaxTokens)
    \/ \E p \in Callers : QueuedWrite1(p)
    \/ \E p \in Callers : TokStoreToken(p)
    \/ \E p \in Callers : TokStoreExpiry(p)
    \/ \E p \in Callers : Cancel(p)
    \/ Tick(ShortHorizon)

\* a task that can go on is polled until its next await; polled at the token
\* lock it takes the lock or joins the waiters
TokenPoll(p) == TokenQueue(p) \/ QueuedRead1(p) \/ QueuedWrite1(p)

LockFairness ==
    \A p \in Callers :
        /\ WF_vars(TokenPoll(p))
        /\ WF_vars(TokRead2(p))
        /\ WF_vars(TokStoreToken(p))
        /\ WF_vars(TokStoreExpiry(p))

SpecLocks == InitLocks /\ [][NextLocks]_vars /\ LockFairness

\* a freshly constructed connector that validates credentials over the network
InitValidate == Init /\ platform \in {"reddit", "twitter"}

\* validate_credentials on its own
NextValidate ==
    \/ \E p \in Callers : RedditCall(p, "validate_credentials")
    \/ \E p \in Callers : TokenSteps(p, MaxTokens)
    \/ \E p \in Callers : TwitterCall(p, "validate_credentials")
    \/ \E p \in Callers : TwNetFail(p)
    \/ \E p \in Callers : TwTransmit(p)
    \/ \E p \in Callers, s \in Statuses : TwValidate(p, s)
    \/ \E p \in Callers : Cancel(p)
    \/ Tick(MaxTime)

SpecValidate == InitValidate /\ [][NextValidate]_vars

\* a connector of any platform, constructed with any credentials
InitConfigured == ConstructedWith(DefaultPrivacy, AnyCredentials, NoneV)

\* is_configured between and during the calls that use the credentials
NextConfigured ==
    \/ \E p \in Callers : IsConfigured(p)
    \/ \E p \in Callers : RedditCall(p, "validate_credentials")
    \/ \E p \in Callers : TokenSteps(p, CallTokens)
    \/ \E p \in Callers : TwitterCall(p, "validate_credentials")
    \/ \E p \in Callers : TwNetFail(p)
    \/ \E p \in Callers : TwTransmit(p)
    \/ \E p \in Callers, s \in Statuses : TwValidate(p, s)
    \/ \E p \in Callers, o \in {"search_posts", "get_post_by_id"}, a \in Queries :
          PlaceholderCall(p, o, a)
    \/ Tick(Horizon)

SpecConfigured == InitConfigured /\ [][NextConfigured]_vars

\* the building of search URLs on its own
NextUrl ==
    \E q \in Queries, m \in RequestedResults, sd \in Dates, ed \in Dates :
        BuildSearchUrl([query |-> q, max_results |-> m, start_date |-> sd,
                        end_date |-> ed])

SpecUrl == InitValidate /\ [][NextUrl]_vars

\* searches on a Reddit or a Twitter connector, with the requests they send
\* kept on record; Twitter's clock stops before a wait for a window reset ends
InitSends ==
    /\ ConstructedWith(DefaultPrivacy, WorkingCredentials, Some(<<>>))
    /\ platform \in {"reddit", "twitter"}

NextSends ==
    \/ \E p \in Callers : RedditCall(p, "search_posts")
    \/ \E p \in Callers : TokenSteps(p, CallTokens)
    \/ \E p \in Callers : AcquireSteps(p)
    \/ \E p \in Callers : RedditNetFail(p)
    \/ \E p \in Callers : RedditTransmit(p)
    \/ \E p \in Callers, sb \in Responses(RedditBodies) : RedditResponse(p, sb[1], sb[2])
    \/ \E p \in Callers : TwitterCall(p, "search_posts")
    \/ \E p \in Callers : TwEnter(p)
    \/ \E p \in Callers : TwCheck(p)
    \/ \E p \in Callers : TwWake2(p)
    \/ \E p \in Callers : TwNetFail(p)
    \/ \E p \in Callers : TwTransmit(p)
    \/ \E p \in Callers : TwResponse(p)
    \/ \E p \in Callers, sb \in Responses(TwitterBodies), r \in RemainingHeaders,
          l \in LimitHeaders, t \in ResetHeaders(now) :
          TwUpdate(p, sb[1], sb[2], [remaining |-> r, limit |-> l, reset |-> t])
    \/ Tick(IF platform = "twitter" THEN ShortHorizon ELSE Horizon)

SpecSends == InitSends /\ [][NextSends]_vars

\* the reactive limiter on its own: search_posts and get_post_by_id of the
\* Twitter connector, with the headers of each response recorded
InitReactive ==
    /\ ConstructedWith(DefaultPrivacy, WorkingCredentials, Some(<<>>))
    /\ platform = "twitter"

\* one response with a success status, one that get_post_by_id takes for a
\* missing post, and one with an error status
ReactiveResponses == {<<200, "post">>, <<404, "message">>, <<500, "message">>}

NextReactive ==
    \/ \E p \in Callers, o \in TwitterApiOps : TwitterCall(p, o)
    \/ \E p \in Callers : TwEnter(p)
    \/ \E p \in Callers : TwCheck(p)
    \/ \E p \in Callers : TwWake2(p)
    \/ \E p \in Callers : TwNetFail(p)
    \/ \E p \in Callers : TwTransmit(p)
    \/ \E p \in Callers : TwResponse(p)
    \/ \E p \in Callers, sb \in ReactiveResponses, r \in RemainingHeaders,
          l \in LimitHeaders, t \in ResetHeaders(now) :
          TwUpdate(p, sb[1], sb[2], [remaining |-> r, limit |-> l, reset |-> t])
    \/ Tick(ShortHorizon)

SpecReactive == InitReactive /\ [][NextReactive]_vars

\* wait_for_rate_limit of both connectors until it returns. Calls arrive up to
\* LastArrival; the clock goes on for as long as a call sleeps.
InitWaits == Init /\ platform \in {"reddit", "twitter"}

\* a task that finds the rate-limit lock taken, or other tasks waiting for it,
\* joins the waiters
RateQueue(p) ==
    /\ pc[p] = "rl_wait"
    /\ ~Waiting(rate_lock, p)
    /\ (rate_lock.q # <<>> \/ ~CanWrite(rate_lock))
    /\ rate_lock' = [rate_lock EXCEPT !.q = Append(@, p)]
    /\ out' = NoOut
    /\ UNCHANGED <<platform, privacy_config, credential, tw, now, rl, access_token, token_expires_at,
                   token_lock, expires_lock, pc, op, loc, grants, issued, stored, sends>>

QueuedRlEnter(p) == Turn(rate_lock, p) /\ RlEnter(p)
RatePoll(p) == RateQueue(p) \/ QueuedRlEnter(p)

Arrives(p) ==
    /\ now < LastArrival
    /\ (RedditCall(p, "acquire") \/ TwitterCall(p, "search_posts"))

\* the latest moment a sleeping call wakes at, and LastArrival at least
Deadline ==
    LET wakes == {Unwrap(loc[p].wake) : p \in {q \in Callers : pc[q] \in Sleeping}}
                   \cup {LastArrival}
    IN CHOOSE t \in wakes : \A u \in wakes : u <= t

NextWaits ==
    \/ \E p \in Callers : Arrives(p)
    \/ \E p \in Callers : RateQueue(p)
    \/ \E p \in Callers : QueuedRlEnter(p)
    \/ \E p \in Callers : RlCheck(p)
    \/ \E p \in Callers : RlWake(p)
    \/ \E p \in Callers : TwEnter(p)
    \/ \E p \in Callers : TwCheck(p)
    \/ \E p \in Callers : TwWake1(p)
    \/ \E p \in Callers : TwWake2(p)
    \/ \E p \in Callers : TwNetFail(p)
    \/ \E p \in Callers : TwTransmit(p)
    \/ \E p \in Callers : TwResponse(p)
    \/ \E p \in Callers, sb \in ReactiveResponses, r \in RemainingHeaders,
          l \in LimitHeaders, t \in ResetHeaders(now) :
          TwUpdate(p, sb[1], sb[2], [remaining |-> r, limit |-> l, reset |-> t])
    \/ Tick(Deadline)

\* a task that can go on is polled until its next await, and time passes
WaitFairness ==
    /\ WF_vars(Tick(Deadline))
    /\ \A p \in Callers :
          /\ WF_vars(RatePoll(p))
          /\ WF_vars(RlCheck(p))
          /\ WF_vars(RlWake(p))
          /\ WF_vars(TwEnter(p))
          /\ WF_vars(TwCheck(p))
          /\ WF_vars(TwWake1(p))
          /\ WF_vars(TwWake2(p))

SpecWaits == InitWaits /\ [][NextWaits]_vars /\ WaitFairness

\* the handling of batch responses on its own
NextBatch ==
    \E p \in Callers, items \in Batches : ParseBatch(p, "search_posts", items)

SpecBatch == InitValidate /\ [][NextBatch]_vars

\* the proactive limiter with status queries between the acquire() calls
NextStatus ==
    \/ \E p \in Callers, o \in AcquireOps \cup StatusOps : RedditCall(p, o)
    \/ \E p \in Callers : AcquireSteps(p)
    \/ \E p \in Callers : RedditStatus(p)
    \/ Tick(MaxTime)

SpecStatus == InitReddit /\ [][NextStatus]_vars

\* the caller turns from one connector to the other between two calls; each
\* connector keeps its own state meanwhile
Switch ==
    /\ \A p \in Callers : pc[p] = "idle"
    /\ platform' = IF platform = "reddit" THEN "twitter" ELSE "reddit"
    /\ out' = NoOut
    /\ UNCHANGED <<privacy_config, credential, tw, now, rl, access_token, token_expires_at, rate_lock,
                   token_lock, expires_lock, pc, op, loc, grants, issued, stored, sends>>

\* a Reddit and a Twitter connector side by side, called in turn; the clock
\* stops before any wait for a Reddit spacing interval or a Twitter window
\* reset can end
NextFrame ==
    \/ \E p \in Callers, o \in TokenOps \cup AcquireOps : RedditCall(p, o)
    \/ \E p \in Callers : TokenSteps(p, CallTokens)
    \/ \E p \in Callers : RlEnter(p)
    \/ \E p \in Callers : RlCheck(p)
    \/ \E p \in Callers, o \in {"search_posts"} \cup StatusOps : TwitterCall(p, o)
    \/ \E p \in Callers : TwEnter(p)
    \/ \E p \in Callers : TwCheck(p)
    \/ \E p \in Callers : TwWake2(p)
    \/ \E p \in Callers : TwNetFail(p)
    \/ \E p \in Callers : TwTransmit(p)
    \/ \E p \in Callers : TwResponse(p)
    \/ \E p \in Callers, sb \in Responses(TwitterBodies), r \in RemainingHeaders,
          l \in LimitHeaders, t \in ResetHeaders(now) :
          TwUpdate(p, sb[1], sb[2], [remaining |-> r, limit |-> l, reset |-> t])
    \/ \E p \in Callers : TwitterStatus(p)
    \/ Switch
    \/ Tick(ShortHorizon)

SpecFrame == InitValidate /\ [][NextFrame]_vars

(* ------------------------------ normalizer ------------------------------ *)
\* texts are sequences of characters
NewLine == "\n"
Titles == {<<>>, <<"T">>}
Bodies == {<<>>, <<"B">>}
RawIds == {"id1", "id2"}
Names == {"ann", "bob"}
Salts == {"salt1", "salt2"}
Option(S) == {NoneV} \cup {Some(x) : x \in S}

\* utils::anonymize_user_id(user_id, salt): the salted hash of a raw identifier
AnonymizeUserId(user_id, salt) == <<"hash", user_id, salt>>

\* utils::apply_privacy_compliance(&mut post, config): a post whose privacy
\* flags are set comes back as it was
ApplyPrivacyCompliance(post, cfg) == post

\* reddit.rs RedditPost: the fields the conversion of author and content reads
RedditPosts ==
    [title : Option(Titles), selftext : Option(Bodies),
     author_fullname : Option(RawIds), author : Option(Names)]

\* reddit.rs 402-412
RedditAuthor(post, cfg) ==
    [id_hash |-> AnonymizeUserId(IF IsSome(post.author_fullname)
                                 THEN Unwrap(post.author_fullname) ELSE "unknown",
                                 cfg.salt),
     username |-> IF IsSome(post.author) THEN Unwrap(post.author) ELSE "deleted"]

\* reddit.rs 424-431: the match on (title, selftext), arm by arm
RedditContent(title, selftext) ==
    IF IsSome(title) /\ IsSome(selftext) /\ Unwrap(selftext) # <<>>
    THEN Unwrap(title) \o <<NewLine, NewLine>> \o Unwrap(selftext)
    ELSE IF IsSome(title) THEN Unwrap(title)
    ELSE IF IsSome(selftext) THEN Unwrap(selftext)
    ELSE <<>>

RedditPrivacyFlags_NotAnonymized == [anonymized |-> FALSE, consent_status |-> "Implied"]
\* reddit.rs 484-491
RedditPrivacyFlags == [anonymized |-> TRUE, consent_status |-> "Implied"]

\* reddit.rs 400-513 convert_post_to_social_post
ConvertPostToSocialPost(post, cfg) ==
    ApplyPrivacyCompliance(
        [platform |-> "reddit",
         content |-> RedditContent(post.title, post.selftext),
         author |-> RedditAuthor(post, cfg),
         privacy_flags |-> RedditPrivacyFlags], cfg)

\* twitter.rs TwitterTweet and TwitterUser (includes.users)
TwitterTweets == [text : Titles, author_id : Option(RawIds)]
TwitterUsers == [id : RawIds, username : Names]
MaxUsers == 2
\* includes.users of a response: absent, or a list of users
IncludedUsers == Option(SeqsUpTo(TwitterUsers, MaxUsers))

ConvertUserToAuthor_HashesName(user, cfg) ==
    [id_hash |-> AnonymizeUserId(user.username, cfg.salt), username |-> user.username]
\* twitter.rs 594-609 convert_user_to_author
ConvertUserToAuthor(user, cfg) ==
    [id_hash |-> AnonymizeUserId(user.id, cfg.salt), username |-> user.username]

\* twitter.rs 613-621 create_anonymous_author
CreateAnonymousAuthor(user_id, cfg) ==
    [id_hash |-> AnonymizeUserId(user_id, cfg.salt), username |-> "anonymous"]

\* twitter.rs 432-443: users.iter().find(|u| u.id == *author_id)
TwitterAuthor(tweet, users, cfg) ==
    IF IsSome(tweet.author_id)
    THEN LET author_id == Unwrap(tweet.author_id) IN
         IF IsSome(users)
         THEN LET found == {i \in DOMAIN Unwrap(users) : Unwrap(users)[i].id = author_id} IN
              IF found # {}
              THEN ConvertUserToAuthor(
                       Unwrap(users)[CHOOSE i \in found : \A j \in found : i <= j], cfg)
              ELSE CreateAnonymousAuthor(author_id, cfg)
         ELSE CreateAnonymousAuthor(author_id, cfg)
    ELSE CreateAnonymousAuthor("unknown", cfg)

\* twitter.rs 562-568
TwitterPrivacyFlags == [anonymized |-> TRUE, consent_status |-> "Implied"]

\* twitter.rs 424-591 convert_tweet_to_post
ConvertTweetToPost(tweet, users, cfg) ==
    ApplyPrivacyCompliance(
        [platform |-> "twitter",
         content |-> tweet.text,
         author |-> TwitterAuthor(tweet, users, cfg),
         privacy_flags |-> TwitterPrivacyFlags], cfg)

\* reddit.rs 696, 759, 824: a well-formed item of a response is converted
RedditConvert(post) ==
    /\ platform = "reddit"
    /\ out' = [NoOut EXCEPT !.op = "convert_post_to_social_post",
                            !.raw = Some(post),
                            !.post = Some(ConvertPostToSocialPost(post, privacy_config))]
    /\ UNCHANGED <<platform, privacy_config, credential, tw, now, rl, access_token,
                   token_expires_at, rate_lock, token_lock, expires_lock, pc, op, loc,
                   grants, issued, stored, sends>>

\* twitter.rs 775, 843: a tweet of a response is converted
TwitterConvert(tweet, users) ==
    /\ platform = "twitter"
    /\ out' = [NoOut EXCEPT !.op = "convert_tweet_to_post",
                            !.raw = Some([tweet |-> tweet, users |-> users]),
                            !.post = Some(ConvertTweetToPost(tweet, users, privacy_config))]
    /\ UNCHANGED <<platform, privacy_config, credential, tw, now, rl, access_token,
                   token_expires_at, rate_lock, token_lock, expires_lock, pc, op, loc,
                   grants, issued, stored, sends>>

\* models.rs SocialPost: content and hashtags, texts over a small alphabet
WordChars == {"a", "_"}
Chars == WordChars \cup {"#", " "}
MaxContent == 4
Contents == SeqsUpTo(Chars, MaxContent)

\* the end of the longest run of word characters that starts at j
RECURSIVE WordEnd(_, _)
WordEnd(s, j) ==
    IF j < Len(s) /\ s[j + 1] \in WordChars THEN WordEnd(s, j + 1) ELSE j

RECURSIVE FindHashtags_Bare(_, _)
FindHashtags_Bare(s, i) ==
    IF i > Len(s) THEN <<>>
    ELSE IF s[i] = "#" /\ i < Len(s) /\ s[i + 1] \in WordChars
         THEN <<SubSeq(s, i + 1, WordEnd(s, i + 1))>>
                  \o FindHashtags_Bare(s, WordEnd(s, i + 1) + 1)
         ELSE FindHashtags_Bare(s, i + 1)
\* models.rs 310-314: Regex "#\w+", find_iter from position i: leftmost
\* matches, each as long as it can be, the search resuming after a match
RECURSIVE FindHashtags(_, _)
FindHashtags(s, i) ==
    IF i > Len(s) THEN <<>>
    ELSE IF s[i] = "#" /\ i < Len(s) /\ s[i + 1] \in WordChars
         THEN <<SubSeq(s, i, WordEnd(s, i + 1))>>
                  \o FindHashtags(s, WordEnd(s, i + 1) + 1)
         ELSE FindHashtags(s, i + 1)

\* hashtag lists a post may hold before extraction: none (SocialPost::new),
\* a list from other content, or the list of its own content
StoredHashtags(content) == {<<>>, <<<<"#", "_">>>>, FindHashtags(content, 1)}

\* models.rs 309-315 SocialPost::extract_hashtags(&mut self)
ExtractHashtags(post) ==
    /\ out' = [NoOut EXCEPT !.op = "extract_hashtags",
                            !.raw = Some(post),
                            !.post = Some([post EXCEPT
                                             !.hashtags = FindHashtags(post.content, 1)])]
    /\ UNCHANGED <<platform, privacy_config, credential, tw, now, rl, access_token,
                   token_expires_at, rate_lock, token_lock, expires_lock, pc, op, loc,
                   grants, issued, stored, sends>>

\* connectors constructed with one salt or another
InitNormalize ==
    /\ \E salt \in Salts : Constructed([salt |-> salt])
    /\ platform \in {"reddit", "twitter"}

NextNormalize ==
    \/ \E post \in RedditPosts : RedditConvert(post)
    \/ \E tweet \in TwitterTweets, users \in IncludedUsers :
          TwitterConvert(tweet, users)
    \/ Tick(Horizon)

SpecNormalize == InitNormalize /\ [][NextNormalize]_vars

\* posts of models.rs, their hashtags extracted again and again
NextPost ==
    \E content \in Contents : \E hashtags \in StoredHashtags(content) :
        ExtractHashtags([content |-> content, hashtags |-> hashtags])

SpecPost == InitReddit /\ [][NextPost]_vars

(* ------------------------------- claims --------------------------------- *)
\* number of acquire() calls that completed without waiting at a time in [a, b)
GrantsIn(a, b) == Cardinality({i \in DOMAIN grants : a <= grants[i] /\ grants[i] < b})

\* C1, as stated: in every rolling minute at most MinuteCap, and in every
\* rolling hour at most HourCap, acquire() calls complete without waiting.
C1_RollingWindowCaps ==
    \A t \in 0..now :
        /\ GrantsIn(t, t + MinuteLen) <= MinuteCap
        /\ GrantsIn(t, t + HourLen) <= HourCap

\* C1, amended: in every rolling minute at most MinuteCap acquire() calls
\* complete without waiting, and in every hour window of the limiter (from
\* hour_window_start until that window rolls over) at most HourCap do.
C1_WindowCaps ==
    /\ \A t \in 0..now : GrantsIn(t, t + MinuteLen) <= MinuteCap
    /\ GrantsIn(rl.hour_window_start, now + 1) <= HourCap

\* the hour window has rolled over, calls were counted in both windows, and
\* the current one is being counted again
C1_Witness ==
    /\ rl.hour_window_start > 0
    /\ Len(grants) > HourCap
    /\ GrantsIn(rl.hour_window_start, now + 1) >= 1
    /\ GrantsIn(0, rl.hour_window_start) = HourCap

\* the deadline a call that found the quota used up has to honour
Until(p) == Unwrap(loc[p].seen).reset_time

\* C2: a Twitter wait_for_rate_limit that finds remaining == 0 before
\* reset_time returns no earlier than reset_time and no later than one
\* minimum-spacing interval after it; until then it is never asleep with a
\* deadline beyond that.
C2_ReactiveWaitBounds ==
    \A p \in Callers :
        loc[p].exhausted =>
            /\ pc[p] \in Sleeping =>
                  /\ now <= Unwrap(loc[p].wake)
                  /\ Unwrap(loc[p].wake) <= Until(p) + TwitterSpacing
            /\ (out.caller = p /\ out.op = "wait_for_rate_limit") =>
                  /\ now >= Until(p)
                  /\ now <= Until(p) + TwitterSpacing

\* a call that found the quota used up has slept until reset_time and is now
\* asleep for a whole spacing interval more
C2_Witness ==
    \E p \in Callers :
        /\ loc[p].exhausted
        /\ pc[p] = "tw_sleep2"
        /\ Unwrap(loc[p].wake) = Until(p) + TwitterSpacing

\* two tasks are both past acquire and about to send
BothProceed(p, q) == p # q /\ pc[p] = "net_conn" /\ pc[q] = "net_conn"

\* both passed the reactive check on the same snapshot, which showed one
\* request left in the window
SharedQuotaUnit(p, q) ==
    /\ IsSome(loc[p].seen)
    /\ loc[p].seen = loc[q].seen
    /\ Unwrap(loc[p].seen).remaining = 1

\* both slept towards the same opening and were let through when it came
SharedOpening(p, q) ==
    /\ IsSome(loc[p].wake)
    /\ loc[p].wake = loc[q].wake

\* C3, as stated: two concurrent callers of one connector never both proceed
\* on the same slot, be it the last unit of quota of a window or the same
\* minimum-spacing opening.
C3_NoSharedSlot ==
    \A p, q \in Callers :
        BothProceed(p, q) => ~SharedQuotaUnit(p, q) /\ ~SharedOpening(p, q)

\* C4, as stated: a call that is cancelled at a suspension point leaves no
\* window counter incremented for a request that was never sent.
C4_NoOrphanCharge ==
    out.res = "cancelled" => ~out.charged

\* positions at which a task owns a guard of each lock
RateGuardAt == {"rl_held", "tw_held"}
TokenGuardAt == {"tok_rd2", "tok_wr2"}

\* C5: every guard of the rate-limit and token locks is owned by a task that
\* is still running at a position that owns one; in particular a task that
\* was just cancelled owns none, so the locks stay available to later calls.
C5_CancelReleasesLocks ==
    /\ \A p \in Holders(rate_lock) : pc[p] \in RateGuardAt
    /\ \A p \in Holders(token_lock) : pc[p] \in TokenGuardAt
    /\ Holders(expires_lock) = {}
    /\ out.res = "cancelled" =>
          out.caller \notin Holders(rate_lock) \cup Holders(token_lock)
                            \cup Holders(expires_lock)

\* a task was cancelled while it owned the write guard of the token lock, and
\* the lock is free again
C5_Witness ==
    /\ out.res = "cancelled"
    /\ out.at = "tok_wr2"
    /\ token_lock = FreeLock

\* C6: a task suspended in a sleep or in a network call owns no guard, and a
\* status query that waits for the rate-limit lock while another task sleeps
\* finds it free unless a running task is inside its check.
C6_NoLockAcrossSuspension ==
    /\ \A p \in Callers :
          pc[p] \in Sleeping \cup InNetwork =>
              p \notin Holders(rate_lock) \cup Holders(token_lock)
                       \cup Holders(expires_lock)
    /\ \A p, q \in Callers :
          (/\ pc[p] = "st_wait"
           /\ pc[q] \in Sleeping
           /\ \A r \in Callers : pc[r] \notin RateGuardAt) => CanRead(rate_lock)

\* a status query has just completed while another task is asleep in its
\* rate-limit wait
C6_Witness ==
    /\ out.op = "get_rate_limit_status"
    /\ out.res = "OkInfo"
    /\ \E q \in Callers : q # out.caller /\ pc[q] \in Sleeping

\* the token in the cache was issued with the longest lifetime served, and how
\* long the code is to treat it as usable
LongLived == IsSome(stored) /\ Unwrap(stored).expires_in = MaxExpiresIn
UsableUntil == Unwrap(stored).issued_at + (MaxExpiresIn - TokenMargin)

\* task p completes the validity check of get_token in this step
ChecksToken(p) ==
    /\ pc[p] = "tok_rd2"
    /\ pc'[p] # "tok_rd2"
    /\ ~(out'.caller = p /\ out'.res = "cancelled")

\* C7: once a token with expires_in = MaxExpiresIn is stored, a get_token()
\* whose check runs less than MaxExpiresIn - TokenMargin after the token was
\* issued returns the cached token without a fetch; a check at or after that
\* point starts exactly one fetch.
C7_CachedThenOneFetch ==
    [][\A p \in Callers :
          (ChecksToken(p) /\ LongLived) =>
              IF now < UsableUntil
                THEN /\ out'.caller = p
                     /\ out'.res = "OkToken"
                     /\ out'.token = access_token
                     /\ out'.fetches = 0
                     /\ issued' = issued
                ELSE /\ pc'[p] = "tok_net"
                     /\ loc'[p].fetches = 1
                     /\ issued' = issued]_vars

\* a get_token() has just returned the cached token at the last instant of
\* its usable period
C7_Witness ==
    /\ LongLived
    /\ now = UsableUntil - 1
    /\ now > Unwrap(stored).issued_at
    /\ out.op = "get_token"
    /\ out.res = "OkToken"
    /\ out.fetches = 0

\* C8: get_token() answers a non-success response of the token endpoint with
\* AuthenticationFailed and no token, and a transport failure of the token
\* request with NetworkError.
C8_TokenEndpointErrors ==
    (out.op = "get_token" /\ out.at = "tok_net" /\ out.res # "cancelled") =>
        /\ (out.status # 0 /\ ~IsSuccess(out.status)) =>
              out.res = "AuthenticationFailed" /\ out.token = NoneV
        /\ out.status = 0 => out.res = "NetworkError" /\ out.token = NoneV

\* the token endpoint answered 500 and get_token() returned AuthenticationFailed
C8_Witness ==
    /\ out.op = "get_token"
    /\ out.at = "tok_net"
    /\ out.status = 500
    /\ out.res = "AuthenticationFailed"

\* positions from which a trait method returns the result of its own request
ResponseAt == {"net_resp", "upd_wait"}

\* C9: get_post_by_id of the Twitter and Reddit connectors answers status 404
\* with Ok(None) and every other non-2xx status with ApiError carrying that
\* status.
C9_GetPostStatusMapping ==
    (/\ platform \in {"twitter", "reddit"}
     /\ out.op = "get_post_by_id"
     /\ out.at \in ResponseAt
     /\ out.res # "cancelled") =>
        /\ out.status = 404 => out.res = "OkNone"
        /\ (out.status # 404 /\ ~IsSuccess(out.status)) =>
              out.res = "ApiError" /\ out.code = out.status

\* the Twitter connector has just answered a 404 with Ok(None)
C9_Witness ==
    /\ platform = "twitter"
    /\ out.op = "get_post_by_id"
    /\ out.at \in ResponseAt
    /\ out.status = 404
    /\ out.res = "OkNone"

\* C10: search_posts of the Instagram and Telegram connectors returns
\* ConfigError whatever the query and whatever the connector was configured
\* with.
C10_SearchUnsupported ==
    (platform \in {"instagram", "telegram"} /\ out.op = "search_posts") =>
        out.res = "ConfigError"

\* an unconfigured Instagram connector was asked to search the empty query
C10_Witness ==
    /\ platform = "instagram"
    /\ credential = ""
    /\ out.op = "search_posts"
    /\ out.arg = ""
    /\ out.res = "ConfigError"

\* the failure the connector takes for rejected credentials: a non-success
\* answer of Reddit's token endpoint, a 401 of Twitter's API
AuthenticationFailure ==
    \/ platform = "reddit" /\ out.at = "tok_net"
                           /\ out.status # 0 /\ ~IsSuccess(out.status)
    \/ platform = "twitter" /\ out.status = 401

\* C11: validate_credentials() returns Ok(false) exactly for an
\* authentication failure; a transport failure comes back as NetworkError, an
\* unparseable token response as ParseError, any other status as ApiError.
C11_ValidateCredentials ==
    (out.op = "validate_credentials" /\ out.res # "cancelled") =>
        /\ AuthenticationFailure <=> out.res = "OkFalse"
        /\ (out.at \in InNetwork /\ out.status = 0) => out.res = "NetworkError"
        /\ (platform = "reddit" /\ out.at = "tok_net" /\ IsSuccess(out.status)) =>
              out.res = "ParseError"
        /\ out.res \in {"OkTrue", "OkFalse", "NetworkError", "ParseError", "ApiError"}

\* Reddit's token endpoint turned the credentials down and the validation
\* answered Ok(false)
C11_Witness ==
    /\ platform = "reddit"
    /\ out.op = "validate_credentials"
    /\ out.status = 401
    /\ out.res = "OkFalse"

\* C12, as stated: a batch call whose 2xx response holds malformed items
\* succeeds and returns exactly the well-formed items, in their order.
C12_MalformedItemSkipped ==
    out.at = "batch" =>
        /\ out.res = "OkPosts"
        /\ out.posts = SelectSeq(out.items, IsWellFormed)

\* the two windows of the proactive limiter as a status report would
\* describe each of them
WindowReports ==
    {[remaining |-> MinuteCap - rl.requests_this_minute, limit |-> MinuteCap,
      reset_time |-> rl.minute_window_start + MinuteLen,
      window_duration |-> MinuteLen],
     [remaining |-> HourCap - rl.requests_this_hour, limit |-> HourCap,
      reset_time |-> rl.hour_window_start + HourLen,
      window_duration |-> HourLen]}

\* C13, as stated: the status of the proactive limiter is the report of one
\* of its windows, one with the least remaining count: remaining, limit,
\* reset_time and window_duration all belong to that window.
C13_StatusMostBinding ==
    (platform = "reddit" /\ out.op = "get_rate_limit_status" /\ IsSome(out.info)) =>
        /\ Unwrap(out.info) \in WindowReports
        /\ \A w \in WindowReports : Unwrap(out.info).remaining <= w.remaining

\* positions inside get_access_token and inside wait_for_rate_limit
TokenAt == {"tok_rd1", "tok_rd2", "tok_net", "tok_wr1", "tok_wr2"}
AcquireAt == {"rl_wait", "rl_held", "rl_sleep"}

\* wait_for_rate_limit has returned to the running call of task p, having
\* counted it or having slept
AcquireDone(p) == loc[p].charged \/ loc[p].waited

\* C14, as stated: a public call that needs both first acquires from the rate
\* limiter, then obtains the token, then sends: it is never inside the token
\* manager before acquire() has returned, never inside acquire() with the
\* token already in hand, and sends only after both.
C14_AcquireBeforeToken ==
    \A p \in Callers :
        (platform = "reddit" /\ op[p] \in RedditApiOps) =>
            /\ pc[p] \in TokenAt => AcquireDone(p)
            /\ pc[p] \in AcquireAt => ~IsSome(loc[p].token)
            /\ pc[p] = "net_conn" => AcquireDone(p) /\ IsSome(loc[p].token)

\* C15: a step of a call on the Reddit connector leaves the rate-limit state
\* of the Twitter connector as it was, and a step of a call on the Twitter
\* connector leaves the rate-limit state and the token cache of the Reddit
\* connector as they were.
C15_OwnStateOnly ==
    [][platform' = platform =>
          /\ platform = "reddit" => tw' = tw
          /\ platform = "twitter" =>
                /\ rl' = rl
                /\ access_token' = access_token
                /\ token_expires_at' = token_expires_at]_vars

\* both connectors have been used: the Reddit connector has counted a call
\* and cached a token, and a response has just updated the Twitter limiter
C15_Witness ==
    /\ platform = "twitter"
    /\ out.at = "upd_wait"
    /\ IsSome(tw.last_request)
    /\ rl.requests_this_hour > 0
    /\ IsSome(access_token)

\* results that report a request-level failure
RequestFailures ==
    {"AuthenticationFailed", "NetworkError", "ParseError", "ApiError"}

ConvertOps == {"convert_post_to_social_post", "convert_tweet_to_post"}

\* C17: every post a connector builds for its caller carries
\* privacy_flags.anonymized = true.
C17_ReturnedPostsAnonymized ==
    out.op \in ConvertOps => Unwrap(out.post).privacy_flags.anonymized

\* a Reddit post of a known author has been converted
C17_Witness ==
    /\ out.op = "convert_post_to_social_post"
    /\ IsSome(Unwrap(out.raw).author_fullname)
    /\ Unwrap(out.post).privacy_flags.anonymized
    /\ Unwrap(out.post).author.username \in Names

\* C18: the content of a converted Reddit post is title, blank line, body
\* when both are present and non-empty; otherwise it is one that is present;
\* it is empty when both are absent.
C18_ContentAssembly ==
    out.op = "convert_post_to_social_post" =>
        LET title == Unwrap(out.raw).title
            selftext == Unwrap(out.raw).selftext
            content == Unwrap(out.post).content
            NonEmpty(o) == IsSome(o) /\ Unwrap(o) # <<>>
        IN  IF NonEmpty(title) /\ NonEmpty(selftext)
            THEN content = Unwrap(title) \o <<NewLine, NewLine>> \o Unwrap(selftext)
            ELSE IF ~IsSome(title) /\ ~IsSome(selftext)
                 THEN content = <<>>
                 ELSE \E o \in {title, selftext} : IsSome(o) /\ content = Unwrap(o)

\* the positions of content s at which a '#' is followed by a word character
HashtagStarts(s) ==
    {i \in 1..Len(s) : s[i] = "#" /\ i < Len(s) /\ s[i + 1] \in WordChars}

\* the '#' at position i with the whole word that follows it
HashtagAt(s, i) ==
    SubSeq(s, i, CHOOSE e \in (i + 1)..Len(s) :
                     /\ \A j \in (i + 1)..e : s[j] \in WordChars
                     /\ e = Len(s) \/ s[e + 1] \notin WordChars)

\* C19: after extract_hashtags the post's hashtags are exactly the
\* '#'-prefixed word tokens of its content, in order of appearance and each
\* with its '#', whatever list the post held before; the content is untouched.
C19_HashtagExtraction ==
    out.op = "extract_hashtags" =>
        LET post == Unwrap(out.post)
            s == post.content
            h == post.hashtags
            st == HashtagStarts(s)
        IN  /\ s = Unwrap(out.raw).content
            /\ Len(h) = Cardinality(st)
            /\ \A k \in 1..Len(h) :
                  h[k] = HashtagAt(s, CHOOSE i \in st :
                                         Cardinality({j \in st : j < i}) = k - 1)

\* a post that held a list from other content now holds its own two hashtags
C19_Witness ==
    /\ out.op = "extract_hashtags"
    /\ Unwrap(out.raw).hashtags = <<<<"#", "_">>>>
    /\ Unwrap(out.post).hashtags = <<<<"#", "a">>, <<"#", "a">>>>

\* the raw author identifier of the item just converted
RawAuthorId ==
    LET id == IF out.op = "convert_tweet_to_post"
              THEN Unwrap(out.raw).tweet.author_id
              ELSE Unwrap(out.raw).author_fullname
    IN  IF IsSome(id) THEN Unwrap(id) ELSE "unknown"

\* C20: the id_hash of a converted post's author is the salted hash of the
\* raw author identifier and the configured salt, and of nothing else: not of
\* the time, the connector's state, the user name or the other users listed.
C20_HashOfIdAndSalt ==
    out.op \in ConvertOps =>
        Unwrap(out.post).author.id_hash = AnonymizeUserId(RawAuthorId, privacy_config.salt)

\* a tweet whose author is among the listed users, after a first user of
\* another identifier, converted at a later time
C20_Witness ==
    /\ out.op = "convert_tweet_to_post"
    /\ now > 0
    /\ Unwrap(out.raw).tweet.author_id = Some("id2")
    /\ IsSome(Unwrap(out.raw).users)
    /\ Len(Unwrap(Unwrap(out.raw).users)) = 2
    /\ Unwrap(Unwrap(out.raw).users)[1].id = "id1"
    /\ Unwrap(out.post).author.username = "bob"
    /\ Unwrap(out.post).author.id_hash = <<"hash", "id2", privacy_config.salt>>

\* the connector's required credentials are all non-empty
RequiredCredentialsPresent ==
    IF platform = "reddit"
    THEN credential.client_id # "" /\ credential.client_secret # ""
    ELSE credential # ""

\* C21: is_configured() answers true exactly when every required credential
\* of the connector is non-empty, and no step of the connector changes the
\* credentials, so the answer is the same for the connector's whole lifetime.
C21_IsConfigured ==
    /\ [](out.op = "is_configured" => (out.res = "true" <=> RequiredCredentialsPresent))
    /\ [][credential' = credential]_vars

\* a Reddit connector with a client id but no secret answers false while a
\* validation of its credentials is under way
C21_Witness ==
    /\ platform = "reddit"
    /\ credential = [client_id |-> "id", client_secret |-> ""]
    /\ out.op = "is_configured"
    /\ out.res = "false"
    /\ \E p \in Callers : pc[p] # "idle"

\* the number a string of decimal digits stands for
RECURSIVE ParseDigits(_)
ParseDigits(d) ==
    IF Len(d) = 0 THEN 0
    ELSE 10 * ParseDigits(SubSeq(d, 1, Len(d) - 1))
             + (CHOOSE n \in 0..9 : DigitChars[n + 1] = d[Len(d)])

\* the values of the result-count parameter in the URL just built
ResultCountParams ==
    {ParseDigits(out.items[i].value) :
        i \in {j \in DOMAIN out.items :
                  out.items[j].key = (IF platform = "reddit" THEN "limit" ELSE "max_results")}}

\* C22: the built search URL has one result-count parameter; it is the
\* requested max_results when that is at most 100, 100 when it is more, the
\* platform default (Twitter 10, Reddit 25) when none was requested, and
\* never more than 100.
C22_ResultCount ==
    out.op = "build_search_url" =>
        LET m == Unwrap(out.raw).max_results
            expected == IF ~IsSome(m)
                        THEN (IF platform = "reddit" THEN 25 ELSE 10)
                        ELSE IF Unwrap(m) <= 100 THEN Unwrap(m) ELSE 100
        IN  /\ ResultCountParams = {expected}
            /\ \A n \in ResultCountParams : n <= 100

\* a Twitter search asked for 101 results and its URL asks for 100
C22_Witness ==
    /\ platform = "twitter"
    /\ out.op = "build_search_url"
    /\ Unwrap(out.raw).max_results = Some(101)
    /\ ResultCountParams = {100}

\* C23, as stated: an acquire() that found no window exhausted but the last
\* request less than the minimum spacing ago returns, after its wait, with
\* the call counted in the window counters and recorded as the last request.
C23_SpacingThenCount ==
    (out.op \in AcquireOps /\ out.res = "Ok" /\ out.cause = "spacing") =>
        /\ out.charged
        /\ rl.last_request = Some(now)

\* C24, as stated: a call that goes to sleep having found the minute window
\* and the hour window both at their caps sleeps until the sooner of the two
\* window resets.
C24_SoonestReset ==
    [][\A p \in Callers :
          (/\ pc[p] = "rl_held"
           /\ pc'[p] = "rl_sleep"
           /\ rl'.requests_this_minute >= MinuteCap
           /\ rl'.requests_this_hour >= HourCap) =>
              Unwrap(loc'[p].wake) = Min(rl'.minute_window_start + MinuteLen,
                                         rl'.hour_window_start + HourLen)]_vars

\* the requests sent so far, oldest first
SendTimes == Unwrap(sends)

\* C25, as stated: two consecutive requests of one connector are never sent
\* less than the minimum spacing apart (Twitter 1 s, Reddit 600 ms).
C25_MinimumSpacing ==
    \A i \in 1..(Len(SendTimes) - 1) :
        SendTimes[i + 1] - SendTimes[i] >=
            (IF platform = "reddit" THEN RedditSpacing ELSE TwitterSpacing)

\* the requests sent from time a on, before time b
SendsIn(a, b) == Cardinality({i \in DOMAIN SendTimes : a <= SendTimes[i] /\ SendTimes[i] < b})

\* C26, as stated: within the minute window and within the hour window of a
\* Reddit limiter no more requests are sent than the window's cap.
C26_SendsWithinCaps ==
    platform = "reddit" =>
        /\ SendsIn(rl.minute_window_start, rl.minute_window_start + MinuteLen) <= MinuteCap
        /\ SendsIn(rl.hour_window_start, rl.hour_window_start + HourLen) <= HourCap

\* the call of p passes through the body of wait_for_rate_limit in this step
PassesCheck(p) == pc[p] = "rl_held" /\ pc'[p] # "rl_held"
\* 1 when this step counts a request, 0 when it does not
CountedNow == IF grants' # grants THEN 1 ELSE 0

\* C27: every pass through acquire() rolls over each window that has elapsed
\* (its start becomes now and its counter restarts from 0, so that the cap
\* check sees 0 and the call never waits for that window), and leaves the
\* start and the count of a window that has not elapsed as they were; the
\* counters then differ from these values only by the request the call counts.
C27_Rollover ==
    [][\A p \in Callers : PassesCheck(p) =>
          /\ IF now - rl.minute_window_start >= MinuteLen
               THEN /\ rl'.minute_window_start = now
                    /\ rl'.requests_this_minute = CountedNow
                    /\ ~(pc'[p] = "rl_sleep" /\ loc'[p].cause = "minute")
               ELSE /\ rl'.minute_window_start = rl.minute_window_start
                    /\ rl'.requests_this_minute = rl.requests_this_minute + CountedNow
          /\ IF now - rl.hour_window_start >= HourLen
               THEN /\ rl'.hour_window_start = now
                    /\ rl'.requests_this_hour = CountedNow
                    /\ ~(pc'[p] = "rl_sleep" /\ loc'[p].cause = "hour")
               ELSE /\ rl'.hour_window_start = rl.hour_window_start
                    /\ rl'.requests_this_hour = rl.requests_this_hour + CountedNow]_vars

\* a call was just granted in a minute window that started now, while the
\* hour window, started earlier, holds more requests than the minute window:
\* the minute window was rolled over and the hour window was not
C27_Witness ==
    /\ out.op \in AcquireOps
    /\ out.res = "Ok"
    /\ out.charged
    /\ ~out.waited
    /\ rl.minute_window_start = now
    /\ rl.requests_this_minute = 1
    /\ rl.hour_window_start < now
    /\ rl.requests_this_hour = HourCap

\* the call of p goes to sleep in this step because a window is at its cap
SuspendsAtCap(p) ==
    /\ pc[p] = "rl_held"
    /\ pc'[p] = "rl_sleep"
    /\ loc'[p].cause \in {"minute", "hour"}
\* the call of p ends its sleep for a window at its cap in this step
ResumesFromCap(p) ==
    /\ pc[p] = "rl_sleep"
    /\ pc'[p] # "rl_sleep"
    /\ loc[p].cause \in {"minute", "hour"}
    /\ now >= Unwrap(loc[p].wake)

\* C28: a call that finds a window at its cap goes to sleep without counting
\* anything: last_request_time is untouched, each counter is what it was or,
\* for a window rolled over in the same pass, 0, and a window start moves
\* only by rollover; the step that ends the sleep changes nothing of the
\* limiter state, so what the call leaves behind is what it found.
C28_CapWaitKeepsCounters ==
    [][\A p \in Callers :
          /\ SuspendsAtCap(p) =>
                /\ rl'.last_request = rl.last_request
                /\ grants' = grants
                /\ IF now - rl.minute_window_start >= MinuteLen
                     THEN rl'.requests_this_minute = 0
                     ELSE /\ rl'.requests_this_minute = rl.requests_this_minute
                          /\ rl'.minute_window_start = rl.minute_window_start
                /\ IF now - rl.hour_window_start >= HourLen
                     THEN rl'.requests_this_hour = 0
                     ELSE /\ rl'.requests_this_hour = rl.requests_this_hour
                          /\ rl'.hour_window_start = rl.hour_window_start
          /\ ResumesFromCap(p) => (rl' = rl /\ grants' = grants)]_vars

\* a call has just returned from its wait for the minute window, and the
\* window still holds the count at its cap that the call found
C28_Witness ==
    /\ out.op \in AcquireOps
    /\ out.res = "Ok"
    /\ out.waited
    /\ out.cause = "minute"
    /\ ~out.charged
    /\ rl.requests_this_minute = MinuteCap
    /\ now >= rl.minute_window_start + MinuteLen

\* update_rate_limit runs for the response of p in this step
UpdatesLimiter(p) == pc[p] = "upd_wait" /\ pc'[p] = "idle"
\* the request of p fails in transport in this step
FailsInTransport(p) ==
    pc[p] = "net_conn" /\ pc'[p] = "idle" /\ out'.res = "NetworkError"
\* the headers of the response handled in this step
Handled == Unwrap(out'.headers)

\* C29, as stated: after every response of search_posts or get_post_by_id,
\* whatever its status, remaining, limit and reset_time hold the value of
\* their header when the header is there and parses, and their previous value
\* otherwise, and last_request is now; a transport failure leaves the state
\* as it was.
C29_OverwrittenFromHeaders ==
    [][\A p \in Callers :
          /\ UpdatesLimiter(p) =>
                /\ tw'.remaining = IF Handled.remaining.kind = "num"
                                     THEN Handled.remaining.val ELSE tw.remaining
                /\ tw'.limit = IF Handled.limit.kind = "num"
                                 THEN Handled.limit.val ELSE tw.limit
                /\ tw'.reset_time = IF Handled.reset.kind = "num"
                                      THEN Handled.reset.val ELSE tw.reset_time
                /\ tw'.last_request = Some(now)
          /\ FailsInTransport(p) => tw' = tw]_vars

\* C29, amended: as C29, except that a reset header that parses as an integer
\* but is no representable timestamp sets reset_time to 15 minutes from now.
C29_OverwrittenOrFallback ==
    [][\A p \in Callers :
          /\ UpdatesLimiter(p) =>
                /\ tw'.remaining = IF Handled.remaining.kind = "num"
                                     THEN Handled.remaining.val ELSE tw.remaining
                /\ tw'.limit = IF Handled.limit.kind = "num"
                                 THEN Handled.limit.val ELSE tw.limit
                /\ tw'.reset_time = IF Handled.reset.kind = "num"
                                      THEN Handled.reset.val
                                    ELSE IF Handled.reset.kind = "range"
                                      THEN now + TwitterWindow
                                    ELSE tw.reset_time
                /\ tw'.last_request = Some(now)
          /\ FailsInTransport(p) => tw' = tw]_vars

\* get_post_by_id has just handled an error response whose remaining header
\* was read, whose limit header was missing and whose reset header was no
\* representable timestamp
C29_Witness ==
    /\ out.op = "get_post_by_id"
    /\ out.res = "ApiError"
    /\ IsSome(out.headers)
    /\ Unwrap(out.headers).reset.kind = "range"
    /\ Unwrap(out.headers).limit.kind = "absent"
    /\ Unwrap(out.headers).remaining.kind = "num"
    /\ tw.remaining = Unwrap(out.headers).remaining.val
    /\ now > 0
    /\ tw.reset_time = now + TwitterWindow
    /\ tw.last_request = Some(now)

\* another caller than p has a token request in flight or a fresh token that
\* it has not stored yet
RefreshInFlight(p) ==
    \E q \in Callers \ {p} : pc[q] \in {"tok_net", "tok_wr1", "tok_wr2"}
\* the call of p stores its fresh token in this step
StoresToken(p) == pc[p] = "tok_wr2" /\ pc'[p] # "tok_wr2" /\ out'.res # "cancelled"

\* C30: a get_token() caller that finds the token absent or expired sends a
\* token request of its own even while another caller's refresh is under way,
\* and every caller whose request was answered with a token stores that token
\* over whatever is stored and returns it: of two such callers both return
\* their token and the stored token is that of the one that stored last.
C30_RefreshNotSerialized ==
    [][\A p \in Callers :
          /\ (/\ ChecksToken(p)
               /\ RefreshInFlight(p)
               /\ ~TokenValid(access_token, token_expires_at, now)) =>
                  (pc'[p] = "tok_net" /\ loc'[p].fetches = loc[p].fetches + 1)
          /\ StoresToken(p) =>
                /\ access_token' = Some(Unwrap(loc[p].pending).token)
                /\ token_expires_at' = Some(Unwrap(loc[p].pending).expires_at)
                /\ out'.caller = p
                /\ out'.res = "OkToken"
                /\ out'.token = access_token']_vars

\* a caller has just stored and returned the token issued second, at the
\* moment of construction, while the other caller still holds the token
\* issued first and is about to store it over this one
C30_Witness ==
    /\ now = 0
    /\ out.op = "get_token"
    /\ out.res = "OkToken"
    /\ out.fetches = 1
    /\ out.token = Some(2)
    /\ access_token = Some(2)
    /\ \E q \in Callers \ {out.caller} :
          /\ pc[q] = "tok_wr1"
          /\ Unwrap(loc[q].pending).token = 1

\* the Reddit request of p leaves in this step
SendsRequest(p) ==
    platform = "reddit" /\ pc[p] = "net_conn" /\ pc'[p] = "net_resp"

\* C31, as stated: the token a Reddit request carries is unexpired when the
\* request is sent, now < expires_at of that token, also after a wait in
\* wait_for_rate_limit between get_access_token and the send.
C31_TokenFreshWhenSent ==
    [][\A p \in Callers :
          SendsRequest(p) => now < Unwrap(loc[p].expires_at)]_vars

\* wait_for_rate_limit has returned within the running call of task p
AcquireCompleted(p) ==
    IF platform = "twitter" THEN IsSome(loc[p].seen) ELSE AcquireDone(p)
\* an HTTP request of the call of p is on the wire in this step: an API
\* request leaves, or the token endpoint answers a token request
RequestOnWire(p) ==
    \/ pc[p] = "net_conn" /\ pc'[p] = "net_resp"
    \/ pc[p] = "tok_net" /\ (pc'[p] = "tok_wr1" \/ out'.status # 0)

\* C32, as stated: every HTTP request a connector sends, the probe of
\* validate_credentials() included, is sent after wait_for_rate_limit has
\* returned within the same public call.
C32_AcquireBeforeEveryRequest ==
    [][\A p \in Callers : RequestOnWire(p) => AcquireCompleted(p)]_vars

\* the token refresh of p fails in this step: in transport, with a
\* non-success status or with a body that does not parse
RefreshFails(p) ==
    /\ pc[p] = "tok_net"
    /\ out'.caller = p
    /\ out'.res \in {"NetworkError", "AuthenticationFailed", "ParseError"}

\* C33: the step in which a token refresh fails leaves the cached token and
\* its expiry as they were, and no step of a call other than the store of a
\* token that was issued to it changes either of them.
C33_FailedRefreshKeepsCache ==
    [][/\ \A p \in Callers :
             RefreshFails(p) => /\ access_token' = access_token
                                /\ token_expires_at' = token_expires_at
       /\ (access_token' # access_token \/ token_expires_at' # token_expires_at) =>
             \E p \in Callers : /\ pc[p] = "tok_wr2"
                                 /\ IsSome(loc[p].pending)
                                 /\ access_token' = Some(Unwrap(loc[p].pending).token)]_vars

\* a refresh has just been refused by the token endpoint while the cache
\* holds an expired token, which is still there
C33_Witness ==
    /\ out.op = "get_token"
    /\ out.res = "AuthenticationFailed"
    /\ out.fetches = 1
    /\ IsSome(access_token)
    /\ IsSome(token_expires_at)
    /\ now >= Unwrap(token_expires_at)
    /\ Unwrap(stored).expires_in = MaxExpiresIn

\* a store is between its two assignments
HalfStored == \E q \in Callers : pc[q] = "tok_wr3"
\* the call of p assigns the expiry in this step
StoresExpiry(p) == pc[p] = "tok_wr3" /\ pc'[p] # "tok_wr3"

\* C34: the cached token and its expiry come from the same token response.
\* Outside a store the two are both absent or both present; a store that
\* assigns the expiry finds its own token in the cache and leaves the token
\* and the expiry of its own response there; nothing but a store changes
\* either; and no caller reads the pair, and no second store begins, while a
\* store is between its two assignments.
C34_TokenAndExpiryPaired ==
    /\ [](~HalfStored => (IsSome(access_token) <=> IsSome(token_expires_at)))
    /\ [][\A p \in Callers :
             /\ StoresExpiry(p) =>
                   /\ access_token = Some(Unwrap(loc[p].pending).token)
                   /\ access_token' = access_token
                   /\ token_expires_at' = Some(Unwrap(loc[p].pending).expires_at)
                   /\ out'.token = access_token
             /\ (ChecksToken(p) \/ (pc[p] = "tok_wr2" /\ pc'[p] = "tok_wr3")) =>
                   ~HalfStored]_vars
    /\ [][(access_token' # access_token \/ token_expires_at' # token_expires_at) =>
             \E p \in Callers : pc[p] \in {"tok_wr2", "tok_wr3"} /\ pc'[p] # pc[p]]_vars

\* a caller is between the two assignments of its store, the cache holding
\* its token with the expiry of the token before, while the other caller
\* waits to read the token
C34_Witness ==
    \E p \in Callers, q \in Callers :
        /\ pc[p] = "tok_wr3"
        /\ access_token = Some(2)
        /\ Unwrap(loc[p].pending).token = 2
        /\ IsSome(token_expires_at)
        /\ token_expires_at # Some(Unwrap(loc[p].pending).expires_at)
        /\ pc[q] = "tok_rd1"

\* where a caller waits for a read guard, and for a write guard
ReadWaits == {"tok_rd1", "tok_rd2"}
WriteWaits == {"tok_wr1", "tok_wr2"}

\* C35: the two token locks never deadlock: a get_token() caller waiting for
\* the read guards ends up past them, with both obtained, and a caller
\* waiting for the write guards ends up with both in hand, whatever the other
\* callers do; a caller that holds a guard of the token and waits for one of
\* the expiry never finds the expiry lock taken.
C35_LocksObtained ==
    \A p \in Callers :
        /\ (pc[p] \in ReadWaits) ~> (pc[p] \notin ReadWaits)
        /\ (pc[p] \in WriteWaits) ~> (pc[p] \notin WriteWaits)
        /\ [](pc[p] \in {"tok_rd2", "tok_wr2"} => CanWrite(expires_lock))

\* a caller holds both write guards while the other caller, on the read
\* path, waits for the first
C35_Witness ==
    \E p \in Callers, q \in Callers :
        /\ pc[p] = "tok_wr3"
        /\ p \in token_lock.w
        /\ p \in expires_lock.w
        /\ pc[q] = "tok_rd1"

\* C36: the counters of the Reddit limiter never exceed their caps, so the
\* remaining counts that get_rate_limit_status() computes by subtraction are
\* never negative.
C36_CountersWithinCaps ==
    /\ rl.requests_this_minute <= MinuteCap
    /\ rl.requests_this_hour <= HourCap
    /\ (platform = "reddit" /\ out.op = "get_rate_limit_status" /\ IsSome(out.info)) =>
          /\ MinuteCap - rl.requests_this_minute >= 0
          /\ HourCap - rl.requests_this_hour >= 0
          /\ Unwrap(out.info).remaining >= 0

\* the status is reported with the hour window full: nothing remains
C36_Witness ==
    /\ out.op = "get_rate_limit_status"
    /\ IsSome(out.info)
    /\ rl.requests_this_hour = HourCap
    /\ rl.requests_this_minute < MinuteCap
    /\ Unwrap(out.info).remaining = 0

\* positions inside wait_for_rate_limit of the Twitter connector
TwAcquireAt == {"tw_wait", "tw_held", "tw_sleep1", "tw_sleep2"}
\* the call of p goes to sleep in this step
FallsAsleep(p) == pc[p] \notin Sleeping /\ pc'[p] \in Sleeping

\* C37: every call of wait_for_rate_limit returns. A call of the Reddit
\* limiter sleeps at most once, a call of the Twitter limiter at most twice
\* (once for the reset, once for the spacing), and a call inside either
\* limiter ends up outside it.
C37_AcquireReturns ==
    /\ [][\A p \in Callers :
             /\ (FallsAsleep(p) /\ pc'[p] \in {"rl_sleep", "tw_sleep1"}) =>
                   ~loc[p].waited
             /\ (pc[p] = "rl_sleep" /\ pc'[p] # "rl_sleep") =>
                   pc'[p] \notin AcquireAt
             /\ (pc[p] = "tw_sleep1" /\ pc'[p] # "tw_sleep1") =>
                   pc'[p] \in {"tw_sleep2", "net_conn"}
             /\ (pc[p] = "tw_sleep2" /\ pc'[p] # "tw_sleep2") =>
                   pc'[p] \notin TwAcquireAt]_vars
    /\ \A p \in Callers :
          /\ (pc[p] \in AcquireAt) ~> (pc[p] \notin AcquireAt)
          /\ (pc[p] \in TwAcquireAt) ~> (pc[p] \notin TwAcquireAt)

\* a call of the Twitter limiter that slept until the reset is at the end of
\* its second sleep, the one for the spacing
C37_Witness ==
    \E p \in Callers :
        /\ pc[p] = "tw_sleep2"
        /\ loc[p].exhausted
        /\ loc[p].waited
        /\ now = Unwrap(loc[p].wake)

\* a caller starts a sleep of wait_for_rate_limit
StartsSleep(p) == pc'[p] \in Sleeping /\ pc'[p] # pc[p]

\* a caller leaves the pass of wait_for_rate_limit that computes the wait
LeavesCheck(p) == pc[p] \in {"rl_held", "tw_held"} /\ pc'[p] # pc[p]

\* C38: wait_for_rate_limit never fails. The pass that computes the wait
\* never ends with the Generic error, and every sleep it starts has a duration
\* that is not negative: the call wakes no earlier than it fell asleep.
C38_AcquireNeverFails ==
    [][\A p \in Callers :
          /\ LeavesCheck(p) => out'.res # "Generic"
          /\ StartsSleep(p) => Unwrap(loc'[p].wake) >= now]_vars

\* a call of the Reddit limiter sleeps for the hour window, whose reset lies
\* ahead, the minute window having rolled over since the connector was built
C38_Witness ==
    \E p \in Callers :
        /\ pc[p] = "rl_sleep"
        /\ loc[p].cause = "hour"
        /\ rl.minute_window_start > rl.hour_window_start
        /\ Unwrap(loc[p].wake) = rl.hour_window_start + HourLen
        /\ Unwrap(loc[p].wake) > now


====
